---- MODULE Spec2Model ----
(***************************************************************************)
(* A model of lss_driver: the LSS frame codec (LssCodec), the response     *)
(* parsers (LssResponse), the framed serial session (FramedSerialDriver)   *)
(* and the convenience layer (LSSDriver).                                  *)
(*                                                                         *)
(* Text is modelled as a sequence of bytes (integers 0..255); a Rust       *)
(* String is a byte sequence that is valid UTF-8.                          *)
(***************************************************************************)
EXTENDS Integers, Sequences, FiniteSets, TLC

\* ------------------------------------------------------------------------
\* Bytes
\* ------------------------------------------------------------------------

\* b'\r', the frame delimiter (serial_driver.rs:113)
CR == 13

\* "*1QV" + "1\r*2QV2\r" is the stream "*1QV1\r*2QV2\r" of framing_returns_twice;
\* 195,169 is the two-byte character U+00E9; 169 alone is not valid UTF-8.
Chunks ==
    { <<13>>,                              \* "\r"
      <<42, 49, 81, 86>>,                  \* "*1QV"
      <<49, 13, 42, 50, 81, 86, 50, 13>>,  \* "1\r*2QV2\r"
      <<195>>,
      <<169>> }

\* The separators handed to separate / separate_string / get_val.
Separators ==
    { <<>>,                                \* ""
      <<81, 86>>,                          \* "QV"
      <<49>> }                             \* "1"

\* ------------------------------------------------------------------------
\* Bounds
\* ------------------------------------------------------------------------

\* how many chunks the transport feeds into the decode buffer
MaxFeeds == 3
\* how many times decode is called
MaxDecodes == 4

\* ------------------------------------------------------------------------
\* UTF-8 (std::str::from_utf8, called at serial_driver.rs:116)
\* ------------------------------------------------------------------------

IsCont(b) == b >= 128 /\ b <= 191

\* The length of the well-formed UTF-8 character starting at s[i], 0 if none.
CharLen(s, i) ==
    LET n == Len(s)
        b == s[i]
        c(k) == IF i + k <= n THEN s[i + k] ELSE 0
    IN  IF b <= 127 THEN 1
        ELSE IF b >= 194 /\ b <= 223
            THEN IF IsCont(c(1)) THEN 2 ELSE 0
        ELSE IF b = 224
            THEN IF c(1) >= 160 /\ c(1) <= 191 /\ IsCont(c(2)) THEN 3 ELSE 0
        ELSE IF (b >= 225 /\ b <= 236) \/ b = 238 \/ b = 239
            THEN IF IsCont(c(1)) /\ IsCont(c(2)) THEN 3 ELSE 0
        ELSE IF b = 237
            THEN IF c(1) >= 128 /\ c(1) <= 159 /\ IsCont(c(2)) THEN 3 ELSE 0
        ELSE IF b = 240
            THEN IF c(1) >= 144 /\ c(1) <= 191 /\ IsCont(c(2)) /\ IsCont(c(3))
                 THEN 4 ELSE 0
        ELSE IF b >= 241 /\ b <= 243
            THEN IF IsCont(c(1)) /\ IsCont(c(2)) /\ IsCont(c(3)) THEN 4 ELSE 0
        ELSE IF b = 244
            THEN IF c(1) >= 128 /\ c(1) <= 143 /\ IsCont(c(2)) /\ IsCont(c(3))
                 THEN 4 ELSE 0
        ELSE 0

RECURSIVE ValidFrom(_, _)
ValidFrom(s, i) ==
    IF i > Len(s) THEN TRUE
    ELSE LET k == CharLen(s, i)
         IN  IF k = 0 THEN FALSE ELSE ValidFrom(s, i + k)

from_utf8_ok(s) == ValidFrom(s, 1)

\* ------------------------------------------------------------------------
\* LssCodec::decode
\* ------------------------------------------------------------------------

\* rposition instead of position: the offset of the last delimiter.
position_cr_last(buf) ==
    IF \E i \in 1..Len(buf) : buf[i] = CR
    THEN (CHOOSE i \in 1..Len(buf) :
              buf[i] = CR /\ \A j \in (i + 1)..Len(buf) : buf[j] # CR) - 1
    ELSE -1

\* src.as_ref().iter().position(|b| *b == b'\r'): the 0-based offset of the
\* first delimiter, or -1 for None.
position_cr(buf) ==
    IF \E i \in 1..Len(buf) : buf[i] = CR
    THEN (CHOOSE i \in 1..Len(buf) :
              buf[i] = CR /\ \A j \in 1..(i - 1) : buf[j] # CR) - 1
    ELSE -1

\* split_to that leaves the delimiter out of the line.
split_to_head_drops_cr(buf, at) == SubSeq(buf, 1, at - 1)
\* BytesMut::split_to(at): the first `at` bytes, and what stays in the buffer.
split_to_head(buf, at) == SubSeq(buf, 1, at)
\* split_to that puts the delimiter back at the front of the buffer.
split_to_rest_keeps_cr(buf, at) == SubSeq(buf, at, Len(buf))
\* split_to that takes one byte more out of the buffer than it returns.
split_to_rest_skips_one(buf, at) == SubSeq(buf, at + 2, Len(buf))
split_to_rest(buf, at) == SubSeq(buf, at + 1, Len(buf))

\* decode as a one-shot parser: a buffer without a delimiter is thrown away.
decode_drains(buf) ==
    LET n == position_cr(buf)
    IN  IF n >= 0
        THEN LET line == split_to_head(buf, n + 1)
             IN  [kind |-> IF from_utf8_ok(line) THEN "some" ELSE "err",
                  line |-> line,
                  rest |-> split_to_rest(buf, n + 1)]
        ELSE [kind |-> "none", line |-> <<>>, rest |-> <<>>]

\* decode that puts a line that is not valid UTF-8 back into the buffer.
decode_puts_back(buf) ==
    LET n == position_cr(buf)
    IN  IF n >= 0
        THEN LET line == split_to_head(buf, n + 1)
             IN  IF from_utf8_ok(line)
                 THEN [kind |-> "some", line |-> line,
                       rest |-> split_to_rest(buf, n + 1)]
                 ELSE [kind |-> "err", line |-> line, rest |-> buf]
        ELSE [kind |-> "none", line |-> <<>>, rest |-> buf]

\* decode(src): kind "none" is Ok(None), "some" is Ok(Some(LssResponse)),
\* "err" is Err(io::Error "Invalid String"); line is the bytes split off and
\* rest the buffer afterwards.
decode(buf) ==
    LET n == position_cr(buf)
    IN  IF n >= 0
        THEN LET line == split_to_head(buf, n + 1)
             IN  [kind |-> IF from_utf8_ok(line) THEN "some" ELSE "err",
                  line |-> line,
                  rest |-> split_to_rest(buf, n + 1)]
        ELSE [kind |-> "none", line |-> <<>>, rest |-> buf]

\* ------------------------------------------------------------------------
\* LssResponse: separate, separate_string, get_val
\* ------------------------------------------------------------------------

\* str::is_char_boundary(i), i a 0-based byte offset
is_char_boundary(s, i) ==
    \/ i = 0
    \/ i = Len(s)
    \/ i < Len(s) /\ ~IsCont(s[i + 1])

\* Whether &self.message[1..len - 1] panics: len - 1 underflows on the empty
\* string, the range 1..0 is reversed when len = 1, and an offset inside a
\* multi-byte character is no char boundary.
slice_panics(message) ==
    LET len == Len(message)
    IN  \/ len = 0
        \/ 1 > len - 1
        \/ ~is_char_boundary(message, 1)
        \/ ~is_char_boundary(message, len - 1)

\* A slice that keeps the start marker.
slice_body_keeps_marker(message) == SubSeq(message, 1, Len(message) - 1)

\* self.message[1..len - 1]
slice_body(message) == SubSeq(message, 2, Len(message) - 1)

MatchAt(s, sep, i) ==
    /\ i + Len(sep) - 1 <= Len(s)
    /\ \A k \in 1..Len(sep) : s[i + k - 1] = sep[k]

\* The pieces of s[start..] between the leftmost non-overlapping occurrences
\* of a non-empty separator.
RECURSIVE SplitFrom(_, _, _)
SplitFrom(s, sep, start) ==
    IF \E i \in start..Len(s) : MatchAt(s, sep, i)
    THEN LET i == CHOOSE i \in start..Len(s) :
                      MatchAt(s, sep, i) /\ \A j \in start..(i - 1) : ~MatchAt(s, sep, j)
         IN  <<SubSeq(s, start, i - 1)>> \o SplitFrom(s, sep, i + Len(sep))
    ELSE <<SubSeq(s, start, Len(s))>>

\* The characters of a valid UTF-8 string from s[i] on.
RECURSIVE CharsFrom(_, _)
CharsFrom(s, i) ==
    IF i > Len(s) THEN <<>>
    ELSE LET k == IF CharLen(s, i) = 0 THEN 1 ELSE CharLen(s, i)
         IN  <<SubSeq(s, i, i + k - 1)>> \o CharsFrom(s, i + k)

\* str::split(&str), collected: the empty pattern matches at every char
\* boundary, the ends included.
split(s, sep) ==
    IF sep = <<>>
    THEN <<(<<>>)>> \o CharsFrom(s, 1) \o <<(<<>>)>>
    ELSE SplitFrom(s, sep, 1)

IsDigit(b) == b >= 48 /\ b <= 57

RECURSIVE StripZeros(_)
StripZeros(ds) ==
    IF Len(ds) > 1 /\ ds[1] = 48 THEN StripZeros(Tail(ds)) ELSE ds

\* Whether digit string a (no leading zeros) is a larger number than digit string b.
RECURSIVE DigitsGreater(_, _)
DigitsGreater(a, b) ==
    IF Len(a) # Len(b) THEN Len(a) > Len(b)
    ELSE IF a = <<>> THEN FALSE
    ELSE IF a[1] # b[1] THEN a[1] > b[1]
    ELSE DigitsGreater(Tail(a), Tail(b))

\* The value of a digit string, accumulated with the given sign (-1 or 1).
RECURSIVE DecValue(_, _)
DecValue(ds, sign) ==
    IF ds = <<>> THEN 0
    ELSE DecValue(SubSeq(ds, 1, Len(ds) - 1), sign) * 10 + sign * (ds[Len(ds)] - 48)

NoInt == [ok |-> FALSE, val |-> 0]
SomeInt(v) == [ok |-> TRUE, val |-> v]

\* <u8 as FromStr>::from_str: an optional '+', then digits, at most 255
parse_u8(s) ==
    IF s = <<>> THEN NoInt
    ELSE LET ds == IF s[1] = 43 THEN Tail(s) ELSE s
         IN  IF ds = <<>> \/ \E i \in 1..Len(ds) : ~IsDigit(ds[i]) THEN NoInt
             ELSE IF DigitsGreater(StripZeros(ds), <<50, 53, 53>>) THEN NoInt
             ELSE SomeInt(DecValue(StripZeros(ds), 1))

\* A parse that falls back to 0 for a text that is no i32.
parse_i32_or_zero(s) ==
    IF s = <<>> THEN SomeInt(0)
    ELSE LET neg == s[1] = 45
             ds == IF s[1] = 43 \/ s[1] = 45 THEN Tail(s) ELSE s
             limit == IF neg THEN <<50, 49, 52, 55, 52, 56, 51, 54, 52, 56>>
                      ELSE <<50, 49, 52, 55, 52, 56, 51, 54, 52, 55>>
         IN  IF ds = <<>> \/ \E i \in 1..Len(ds) : ~IsDigit(ds[i]) THEN SomeInt(0)
             ELSE IF DigitsGreater(StripZeros(ds), limit) THEN SomeInt(0)
             ELSE SomeInt(DecValue(StripZeros(ds), IF neg THEN -1 ELSE 1))

\* <i32 as FromStr>::from_str: an optional '+' or '-', then digits, within
\* -2147483648..2147483647
parse_i32(s) ==
    IF s = <<>> THEN NoInt
    ELSE LET neg == s[1] = 45
             ds == IF s[1] = 43 \/ s[1] = 45 THEN Tail(s) ELSE s
             limit == IF neg THEN <<50, 49, 52, 55, 52, 56, 51, 54, 52, 56>>
                      ELSE <<50, 49, 52, 55, 52, 56, 51, 54, 52, 55>>
         IN  IF ds = <<>> \/ \E i \in 1..Len(ds) : ~IsDigit(ds[i]) THEN NoInt
             ELSE IF DigitsGreater(StripZeros(ds), limit) THEN NoInt
             ELSE SomeInt(DecValue(StripZeros(ds), IF neg THEN -1 ELSE 1))

\* What a parser returns: Ok carries id (separate, separate_string), val
\* (separate, get_val) or text (separate_string); PacketParsingError carries
\* its message; "panic" is the thread unwinding instead of returning.
ParseOk(id, val, text) ==
    [kind |-> "Ok", id |-> id, val |-> val, text |-> text, msg |-> ""]
PacketParsingError(msg) ==
    [kind |-> "PacketParsingError", id |-> 0, val |-> 0, text |-> <<>>, msg |-> msg]
Panic ==
    [kind |-> "panic", id |-> 0, val |-> 0, text |-> <<>>, msg |-> ""]

\* LssResponse::separate. Split::next() on a fresh Split is always Some, so
\* "Failed to extract id" cannot arise.
separate(message, separator) ==
    IF slice_panics(message) THEN Panic
    ELSE LET parts == split(slice_body(message), separator)
             id == parse_u8(parts[1])
         IN  IF ~id.ok THEN PacketParsingError("Failed parsing id")
             ELSE IF Len(parts) < 2 THEN PacketParsingError("Failed to extract value")
             ELSE LET value == parse_i32(parts[2])
                  IN  IF ~value.ok THEN PacketParsingError("Failed parsing value")
                      ELSE ParseOk(id.val, value.val, <<>>)

\* A separate_string that returns the last field, not the second.
separate_string_last(message, separator) ==
    IF slice_panics(message) THEN Panic
    ELSE LET parts == split(slice_body(message), separator)
             id == parse_u8(parts[1])
         IN  IF ~id.ok THEN PacketParsingError("Failed parsing id")
             ELSE IF Len(parts) < 2 THEN PacketParsingError("Failed to extract value")
             ELSE ParseOk(id.val, 0, parts[Len(parts)])

\* LssResponse::separate_string
separate_string(message, separator) ==
    IF slice_panics(message) THEN Panic
    ELSE LET parts == split(slice_body(message), separator)
             id == parse_u8(parts[1])
         IN  IF ~id.ok THEN PacketParsingError("Failed parsing id")
             ELSE IF Len(parts) < 2 THEN PacketParsingError("Failed to extract value")
             ELSE ParseOk(id.val, 0, parts[2])

\* A get_val that takes the field after the first separator.
get_val_second(message, separator) ==
    IF slice_panics(message) THEN Panic
    ELSE LET parts == split(slice_body(message), separator)
             value == parse_i32(parts[IF Len(parts) < 2 THEN 1 ELSE 2])
         IN  IF ~value.ok THEN PacketParsingError("failed to parse int")
             ELSE ParseOk(0, value.val, <<>>)

\* LssResponse::get_val. Split::last() is always Some.
get_val(message, separator) ==
    IF slice_panics(message) THEN Panic
    ELSE LET parts == split(slice_body(message), separator)
             value == parse_i32(parts[Len(parts)])
         IN  IF ~value.ok THEN PacketParsingError("failed to parse int")
             ELSE ParseOk(0, value.val, <<>>)

\* ------------------------------------------------------------------------
\* The codec under a transport that fills its buffer, and a caller that
\* parses what it decodes
\* ------------------------------------------------------------------------

VARIABLES
    src,     \* the BytesMut handed to decode
    fed,     \* every byte put into src so far, in order
    nfeeds,  \* how many chunks were put into src
    calls,   \* one record per decode call, in call order
    out      \* the last parser call on the last decoded response

codecVars == <<src, fed, nfeeds, calls, out>>

NoOut == [op |-> "none", sep |-> <<>>, res |-> PacketParsingError("")]

InitCodec ==
    /\ src = <<>>
    /\ fed = <<>>
    /\ nfeeds = 0
    /\ calls = <<>>
    /\ out = NoOut

\* A transport that overwrites the buffer with each chunk it reads.
Feed_overwrites(chunk) ==
    /\ nfeeds < MaxFeeds
    /\ src' = chunk
    /\ fed' = fed \o chunk
    /\ nfeeds' = nfeeds + 1
    /\ out' = NoOut
    /\ UNCHANGED calls

\* The transport appends a chunk it read to the buffer.
Feed(chunk) ==
    /\ nfeeds < MaxFeeds
    /\ src' = src \o chunk
    /\ fed' = fed \o chunk
    /\ nfeeds' = nfeeds + 1
    /\ out' = NoOut
    /\ UNCHANGED calls

\* One decode call on the buffer. The record keeps the buffer before (pre)
\* and after (post), and how many chunks (at) and bytes (seen) had arrived.
Decode ==
    /\ Len(calls) < MaxDecodes
    /\ LET d == decode(src)
       IN  /\ src' = d.rest
           /\ calls' = Append(calls,
                  [pre |-> src, kind |-> d.kind, line |-> d.line,
                   post |-> d.rest, at |-> nfeeds, seen |-> Len(fed)])
    /\ out' = NoOut
    /\ UNCHANGED <<fed, nfeeds>>

\* The caller holds the LssResponse of the last decode call that returned one.
HasResponse == calls # <<>> /\ calls[Len(calls)].kind = "some"
Response == calls[Len(calls)].line

Separate(separator) ==
    /\ HasResponse
    /\ out' = [op |-> "separate", sep |-> separator, res |-> separate(Response, separator)]
    /\ UNCHANGED <<src, fed, nfeeds, calls>>

SeparateString(separator) ==
    /\ HasResponse
    /\ out' = [op |-> "separate_string", sep |-> separator,
               res |-> separate_string(Response, separator)]
    /\ UNCHANGED <<src, fed, nfeeds, calls>>

GetVal(separator) ==
    /\ HasResponse
    /\ out' = [op |-> "get_val", sep |-> separator, res |-> get_val(Response, separator)]
    /\ UNCHANGED <<src, fed, nfeeds, calls>>

\* ------------------------------------------------------------------------
\* FramedSerialDriver: Framed<Serial, LssCodec> behind send and receive
\* ------------------------------------------------------------------------

\* The commands sent (LssCommand.message).
Commands ==
    { <<35, 53, 81, 86, 13>>,              \* "#5QV\r"
      <<35, 49, 76, 13>> }                 \* "#1L\r"

\* What the device puts on the serial line in one go.
DeviceChunks ==
    { <<42, 53, 81, 86>>,                  \* "*5QV"
      <<49, 13>>,                          \* "1\r"
      <<169>> }                            \* a byte that is not valid UTF-8

\* how many send and receive calls one caller makes, and how many chunks
\* the device sends meanwhile
MaxCalls == 3
MaxArrivals == 2
\* the same for two contexts calling at once
MaxGuardCalls == 2
MaxGuardArrivals == 1
\* the same for the caller whose receive is followed to its end
MaxTimedCalls == 2
MaxTimedArrivals == 2

\* The Mutex of the windows build: 0 is unlocked, otherwise the context
\* that holds the guard.
Unlocked == 0

\* A guard that is never dropped.
guard_leak(holder) == holder
\* The MutexGuard `port` goes out of scope when send or receive returns.
guard_drop(holder) == Unlocked

\* What send and receive return.
Returned(op, kind, frame, msg) ==
    [op |-> op, kind |-> kind, frame |-> frame, msg |-> msg]

\* port.send(command): the codec encodes the command and the sink flushes
\* it to the stream. `ok` is whether the stream took the write; a failed
\* write is mapped to SendingError and nothing else is done.
framed_send(written, command, ok) ==
    IF ok
    THEN [wire |-> Append(written, command),
          ret |-> Returned("send", "Ok", <<>>, "")]
    ELSE [wire |-> written,
          ret |-> Returned("send", "SendingError", <<>>, "")]

\* port.next(), the decode step of the stream: the codec is run on the read
\* buffer. done says whether next() is ready, with ret what receive makes
\* of it: a frame is returned, a codec error is mapped to
\* PacketParsingError("Unknown error"); with no frame the stream goes on to
\* read.
framed_decode(p) ==
    LET d == decode(p.rd)
    IN  IF d.kind = "some"
        THEN [port |-> [rd |-> d.rest, readable |-> TRUE], done |-> TRUE,
              line |-> d.line, ret |-> Returned("receive", "Ok", d.line, "")]
        ELSE IF d.kind = "err"
        THEN [port |-> [rd |-> d.rest, readable |-> TRUE], done |-> TRUE,
              line |-> d.line,
              ret |-> Returned("receive", "PacketParsingError", <<>>, "Unknown error")]
        ELSE [port |-> [rd |-> p.rd, readable |-> FALSE], done |-> FALSE,
              line |-> <<>>, ret |-> Returned("receive", "none", <<>>, "")]

\* port.next(), the read step: the bytes on the serial line are appended to
\* the read buffer.
framed_read(p, bytes) == [rd |-> p.rd \o bytes, readable |-> TRUE]

\* A timeout that throws the read buffer away.
on_timeout_discards(p) == [rd |-> <<>>, readable |-> p.readable]
\* timeout(..) elapsed: the future of port.next() is dropped; the Framed,
\* which owns the read buffer, is untouched.
on_timeout(p) == p

VARIABLES
    guarded,   \* TRUE for the build with the Mutex (target_family = "windows")
    pc,        \* per calling context: "idle", "lock", "send" or "recv"
    want,      \* per context: the call being made, "send" or "receive"
    cmd,       \* per context: the command being sent
    lock,      \* the Mutex around framed_port
    port,      \* the Framed's read side: rd, the buffer; readable, is_readable
    line,      \* bytes the device sent that were not read yet
    wire,      \* the frames written to the stream, in order
    attempts,  \* per context: port.send calls made by its current send call
    snap,      \* per context: port and line when its current call began
    hist,      \* the calls that returned, in order of return
    got,       \* every byte read from the line into the read buffer
    taken,     \* the lines the codec removed from the read buffer, in order
    ncalls,    \* how many more calls will be begun
    narrivals  \* how many more chunks the device will send

sessVars ==
    <<guarded, pc, want, cmd, lock, port, line, wire, attempts, snap, hist,
      got, taken, ncalls, narrivals>>

Contexts == DOMAIN pc

NewPort == [rd |-> <<>>, readable |-> FALSE]

\* FramedSerialDriver::new / with_baud_rate, used from the given contexts.
InitSession(ctxs, builds, callsLeft, arrivalsLeft) ==
    /\ guarded \in builds
    /\ pc = [c \in ctxs |-> "idle"]
    /\ want = [c \in ctxs |-> "send"]
    /\ cmd = [c \in ctxs |-> <<>>]
    /\ lock = Unlocked
    /\ port = NewPort
    /\ line = <<>>
    /\ wire = <<>>
    /\ attempts = [c \in ctxs |-> 0]
    /\ snap = [c \in ctxs |-> [port |-> NewPort, line |-> <<>>, wire |-> <<>>]]
    /\ hist = <<>>
    /\ got = <<>>
    /\ taken = <<>>
    /\ ncalls = callsLeft
    /\ narrivals = arrivalsLeft

\* The device puts a chunk on the line.
DeviceSends(chunk) ==
    /\ narrivals > 0
    /\ line' = line \o chunk
    /\ narrivals' = narrivals - 1
    /\ UNCHANGED <<guarded, pc, want, cmd, lock, port, wire, attempts, snap,
                   hist, got, taken, ncalls>>

\* A context calls send or receive. Without the Mutex the session has a
\* single owner (&mut self): a call begins only when no other is under way.
\* With the Mutex the context first waits for the lock.
Call(c, op, command) ==
    /\ pc[c] = "idle"
    /\ ncalls > 0
    /\ guarded \/ \A d \in Contexts : pc[d] = "idle"
    /\ pc' = [pc EXCEPT ![c] =
           IF guarded THEN "lock" ELSE IF op = "send" THEN "send" ELSE "recv"]
    /\ want' = [want EXCEPT ![c] = op]
    /\ cmd' = [cmd EXCEPT ![c] = command]
    /\ attempts' = [attempts EXCEPT ![c] = 0]
    /\ snap' = [snap EXCEPT ![c] = [port |-> port, line |-> line, wire |-> wire]]
    /\ ncalls' = ncalls - 1
    /\ UNCHANGED <<guarded, lock, port, line, wire, hist, got, taken, narrivals>>

CallSend(c, command) == Call(c, "send", command)
CallReceive(c) == Call(c, "receive", <<>>)

\* A context that goes on without the lock.
Acquire_unlocked(c) ==
    /\ pc[c] = "lock"
    /\ lock' = c
    /\ pc' = [pc EXCEPT ![c] = IF want[c] = "send" THEN "send" ELSE "recv"]
    /\ snap' = [snap EXCEPT ![c] = [port |-> port, line |-> line, wire |-> wire]]
    /\ UNCHANGED <<guarded, want, cmd, port, line, wire, attempts, hist, got,
                   taken, ncalls, narrivals>>

\* self.framed_port.lock().await: the context goes on once the Mutex is free.
Acquire(c) ==
    /\ pc[c] = "lock"
    /\ lock = Unlocked
    /\ lock' = c
    /\ pc' = [pc EXCEPT ![c] = IF want[c] = "send" THEN "send" ELSE "recv"]
    /\ snap' = [snap EXCEPT ![c] = [port |-> port, line |-> line, wire |-> wire]]
    /\ UNCHANGED <<guarded, want, cmd, port, line, wire, attempts, hist, got,
                   taken, ncalls, narrivals>>

\* The call of context c returns ret: the guard, if any, is dropped. The
\* record keeps the read buffer the call leaves (rd), how many bytes had
\* been read (got) and how many lines the codec had removed (ntaken).
Return(c, ret, rd, ntaken) ==
    /\ pc' = [pc EXCEPT ![c] = "idle"]
    /\ lock' = IF guarded THEN guard_drop(lock) ELSE lock
    /\ hist' = Append(hist,
           [ctx |-> c, ret |-> ret, rd |-> rd, got |-> Len(got),
            ntaken |-> ntaken])

\* A send that tries again when the write fails.
SendIo_retries(c, ok) ==
    /\ pc[c] = "send"
    /\ attempts' = [attempts EXCEPT ![c] = @ + 1]
    /\ LET r == framed_send(wire, cmd[c], ok)
       IN  /\ wire' = r.wire
           /\ IF ok
              THEN Return(c, r.ret, port.rd, Len(taken))
              ELSE UNCHANGED <<pc, lock, hist>>
    /\ UNCHANGED <<guarded, want, cmd, port, line, snap, got, taken, ncalls,
                   narrivals>>

\* send: port.send(command).await, mapped and returned.
SendIo(c, ok) ==
    /\ pc[c] = "send"
    /\ attempts' = [attempts EXCEPT ![c] = @ + 1]
    /\ LET r == framed_send(wire, cmd[c], ok)
       IN  /\ wire' = r.wire
           /\ Return(c, r.ret, port.rd, Len(taken))
    /\ UNCHANGED <<guarded, want, cmd, port, line, snap, got, taken, ncalls,
                   narrivals>>

\* receive: port.next() runs the codec on the read buffer.
RecvDecode(c) ==
    /\ pc[c] = "recv"
    /\ port.readable
    /\ LET r == framed_decode(port)
       IN  /\ port' = r.port
           /\ taken' = IF r.done THEN Append(taken, r.line) ELSE taken
           /\ IF r.done
              THEN Return(c, r.ret, r.port.rd, Len(taken) + 1)
              ELSE UNCHANGED <<pc, lock, hist>>
    /\ UNCHANGED <<guarded, want, cmd, line, wire, attempts, snap, got,
                   ncalls, narrivals>>

\* receive: port.next() reads what is on the line into the read buffer.
RecvRead(c) ==
    /\ pc[c] = "recv"
    /\ ~port.readable
    /\ line # <<>>
    /\ port' = framed_read(port, line)
    /\ got' = got \o line
    /\ line' = <<>>
    /\ UNCHANGED <<guarded, pc, want, cmd, lock, wire, attempts, snap, hist,
                   taken, ncalls, narrivals>>

\* A receive that awaits port.next() with no timer around it.
RecvTimeout_untimed(c) ==
    /\ pc[c] = "recv"
    /\ ~port.readable
    /\ line = <<>>
    /\ UNCHANGED <<guarded, pc, want, cmd, lock, port, line, wire, attempts,
                   snap, hist, got, taken, ncalls, narrivals>>

\* receive: port.next() is pending (no frame buffered, nothing to read) and
\* TIMEOUT elapses.
RecvTimeout(c) ==
    /\ pc[c] = "recv"
    /\ ~port.readable
    /\ line = <<>>
    /\ port' = on_timeout(port)
    /\ Return(c, Returned("receive", "TimeoutError", <<>>, ""),
              on_timeout(port).rd, Len(taken))
    /\ UNCHANGED <<guarded, want, cmd, line, wire, attempts, snap, got, taken,
                   ncalls, narrivals>>

\* receive: the stream ends (next() is None: "Failed to extract message") or
\* its read fails (an io::Error: "Unknown error").
RecvStreamFails(c, msg) ==
    /\ pc[c] = "recv"
    /\ ~port.readable
    /\ line = <<>>
    /\ Return(c, Returned("receive", "PacketParsingError", <<>>, msg),
              port.rd, Len(taken))
    /\ UNCHANGED <<guarded, want, cmd, port, line, wire, attempts, snap, got,
                   taken, ncalls, narrivals>>

\* ------------------------------------------------------------------------
\* The two builds of FramedSerialDriver side by side, one caller, the same
\* calls and the same stream
\* ------------------------------------------------------------------------

\* how many calls are made on the pair of sessions, and how many chunks the
\* device sends meanwhile
MaxPairCalls == 3
MaxPairArrivals == 2

VARIABLES
    u,         \* the session without the Mutex: port, line, wire, lock, hist
    g,         \* the session with the Mutex
    pcalls,    \* how many more calls will be made
    parrivals  \* how many more chunks the device will send

pairVars == <<u, g, pcalls, parrivals>>

NewSession ==
    [port |-> NewPort, line |-> <<>>, wire |-> <<>>, lock |-> Unlocked, hist |-> <<>>]

InitPair(callsLeft, arrivalsLeft) ==
    /\ u = NewSession
    /\ g = NewSession
    /\ pcalls = callsLeft
    /\ parrivals = arrivalsLeft

\* A send that throws away the input pending from earlier exchanges.
run_send_flushes(s, command, ok) ==
    LET r == framed_send(s.wire, command, ok)
    IN  [s EXCEPT !.wire = r.wire, !.hist = Append(@, r.ret),
                  !.line = <<>>, !.port = NewPort]

\* send, from call to return.
run_send(s, command, ok) ==
    LET r == framed_send(s.wire, command, ok)
    IN  [s EXCEPT !.wire = r.wire, !.hist = Append(@, r.ret)]

\* receive, from call to return: port.next() decodes and reads until a
\* frame or an error is ready; when it is pending, `ending` says what comes
\* first: "timeout", or the stream failing with that message.
RECURSIVE run_receive(_, _)
run_receive(s, ending) ==
    IF s.port.readable
    THEN LET r == framed_decode(s.port)
         IN  IF r.done
             THEN [s EXCEPT !.port = r.port, !.hist = Append(@, r.ret)]
             ELSE run_receive([s EXCEPT !.port = r.port], ending)
    ELSE IF s.line # <<>>
    THEN run_receive([s EXCEPT !.port = framed_read(s.port, s.line),
                               !.line = <<>>], ending)
    ELSE IF ending = "timeout"
    THEN [s EXCEPT !.port = on_timeout(@),
                   !.hist = Append(@, Returned("receive", "TimeoutError", <<>>, ""))]
    ELSE [s EXCEPT !.hist =
              Append(@, Returned("receive", "PacketParsingError", <<>>, ending))]

\* The same call in the build with the Mutex: lock().await first, and the
\* guard dropped on return. `after` is the session the call leaves when it
\* runs; a call that finds the Mutex held never returns ("blocked").
with_guard(s, op, after) ==
    IF s.lock # Unlocked
    THEN [s EXCEPT !.hist = Append(@, Returned(op, "blocked", <<>>, ""))]
    ELSE [after EXCEPT !.lock = guard_drop(1)]

PairDeviceSends(chunk) ==
    /\ parrivals > 0
    /\ parrivals' = parrivals - 1
    /\ u' = [u EXCEPT !.line = @ \o chunk]
    /\ g' = [g EXCEPT !.line = @ \o chunk]
    /\ UNCHANGED pcalls

PairSend(command, ok) ==
    /\ pcalls > 0
    /\ pcalls' = pcalls - 1
    /\ u' = run_send(u, command, ok)
    /\ g' = with_guard(g, "send", run_send(g, command, ok))
    /\ UNCHANGED parrivals

PairReceive(ending) ==
    /\ pcalls > 0
    /\ pcalls' = pcalls - 1
    /\ u' = run_receive(u, ending)
    /\ g' = with_guard(g, "receive", run_receive(g, ending))
    /\ UNCHANGED parrivals

\* ------------------------------------------------------------------------
\* LSSDriver: the convenience methods over a FramedDriver
\* ------------------------------------------------------------------------

\* Every pub async fn of LSSDriver: whether it is one of the query_*
\* methods, the opcode it sends, and how it parses the reply it receives
\* ("none": it receives nothing).
Methods ==
    {
      \* lib.rs:77, "RESET"
      [name |-> "reset", query |-> FALSE, opcode |-> <<82, 69, 83, 69, 84>>,
       reply |-> "none", separator |-> <<>>],
      \* lib.rs:100, "QID", get_val("QID")
      [name |-> "query_id", query |-> TRUE, opcode |-> <<81, 73, 68>>,
       reply |-> "get_val", separator |-> <<81, 73, 68>>],
      \* lib.rs:117, "CID"
      [name |-> "set_id", query |-> FALSE, opcode |-> <<67, 73, 68>>,
       reply |-> "none", separator |-> <<>>],
      \* lib.rs:130, "LED"
      [name |-> "set_color", query |-> FALSE, opcode |-> <<76, 69, 68>>,
       reply |-> "none", separator |-> <<>>],
      \* lib.rs:142, "QLED", separate("QLED")
      [name |-> "query_color", query |-> TRUE, opcode |-> <<81, 76, 69, 68>>,
       reply |-> "separate", separator |-> <<81, 76, 69, 68>>],
      \* lib.rs:168, "D"
      [name |-> "move_to_position", query |-> FALSE, opcode |-> <<68>>,
       reply |-> "none", separator |-> <<>>],
      \* lib.rs:197, "D"
      [name |-> "move_to_position_with_modifier", query |-> FALSE, opcode |-> <<68>>,
       reply |-> "none", separator |-> <<>>],
      \* lib.rs:231, "D"
      [name |-> "move_to_position_with_modifiers", query |-> FALSE, opcode |-> <<68>>,
       reply |-> "none", separator |-> <<>>],
      \* lib.rs:263, "D"
      [name |-> "set_target_position", query |-> FALSE, opcode |-> <<68>>,
       reply |-> "none", separator |-> <<>>],
      \* lib.rs:274, "QD", separate("QD")
      [name |-> "query_position", query |-> TRUE, opcode |-> <<81, 68>>,
       reply |-> "separate", separator |-> <<81, 68>>],
      \* lib.rs:288, "QDT", separate("QDT")
      [name |-> "query_target_position", query |-> TRUE, opcode |-> <<81, 68, 84>>,
       reply |-> "separate", separator |-> <<81, 68, 84>>],
      \* lib.rs:301, "WD"
      [name |-> "set_rotation_speed", query |-> FALSE, opcode |-> <<87, 68>>,
       reply |-> "none", separator |-> <<>>],
      \* lib.rs:315, "WD"
      [name |-> "set_rotation_speed_with_modifier", query |-> FALSE, opcode |-> <<87, 68>>,
       reply |-> "none", separator |-> <<>>],
      \* lib.rs:337, "QWD", separate("QWD")
      [name |-> "query_rotation_speed", query |-> TRUE, opcode |-> <<81, 87, 68>>,
       reply |-> "separate", separator |-> <<81, 87, 68>>],
      \* lib.rs:351, "Q", separate("Q")
      [name |-> "query_status", query |-> TRUE, opcode |-> <<81>>,
       reply |-> "separate", separator |-> <<81>>],
      \* lib.rs:365, "Q1", separate("Q")
      [name |-> "query_safety_status", query |-> TRUE, opcode |-> <<81, 49>>,
       reply |-> "separate", separator |-> <<81>>],
      \* lib.rs:382, "EM"
      [name |-> "set_motion_profile", query |-> FALSE, opcode |-> <<69, 77>>,
       reply |-> "none", separator |-> <<>>],
      \* lib.rs:398, "QEM", separate("QEM")
      [name |-> "query_motion_profile", query |-> TRUE, opcode |-> <<81, 69, 77>>,
       reply |-> "separate", separator |-> <<81, 69, 77>>],
      \* lib.rs:416, "FPC"
      [name |-> "set_filter_position_count", query |-> FALSE, opcode |-> <<70, 80, 67>>,
       reply |-> "none", separator |-> <<>>],
      \* lib.rs:441, "QFPC", separate("QFPC")
      [name |-> "query_filter_position_count", query |-> TRUE, opcode |-> <<81, 70, 80, 67>>,
       reply |-> "separate", separator |-> <<81, 70, 80, 67>>],
      \* lib.rs:456, "AS"
      [name |-> "set_angular_stiffness", query |-> FALSE, opcode |-> <<65, 83>>,
       reply |-> "none", separator |-> <<>>],
      \* lib.rs:474, "QAS", separate("QAS")
      [name |-> "query_angular_stiffness", query |-> TRUE, opcode |-> <<81, 65, 83>>,
       reply |-> "separate", separator |-> <<81, 65, 83>>],
      \* lib.rs:489, "AH"
      [name |-> "set_angular_holding_stiffness", query |-> FALSE, opcode |-> <<65, 72>>,
       reply |-> "none", separator |-> <<>>],
      \* lib.rs:507, "QAH", separate("QAH")
      [name |-> "query_angular_holding_stiffness", query |-> TRUE, opcode |-> <<81, 65, 72>>,
       reply |-> "separate", separator |-> <<81, 65, 72>>],
      \* lib.rs:525, "AA"
      [name |-> "set_angular_acceleration", query |-> FALSE, opcode |-> <<65, 65>>,
       reply |-> "none", separator |-> <<>>],
      \* lib.rs:546, "QAA", separate("QAA")
      [name |-> "query_angular_acceleration", query |-> TRUE, opcode |-> <<81, 65, 65>>,
       reply |-> "separate", separator |-> <<81, 65, 65>>],
      \* lib.rs:564, "AD"
      [name |-> "set_angular_deceleration", query |-> FALSE, opcode |-> <<65, 68>>,
       reply |-> "none", separator |-> <<>>],
      \* lib.rs:585, "QAD", separate("QAD")
      [name |-> "query_angular_deceleration", query |-> TRUE, opcode |-> <<81, 65, 68>>,
       reply |-> "separate", separator |-> <<81, 65, 68>>],
      \* lib.rs:603, "MMD"
      [name |-> "set_maximum_motor_duty", query |-> FALSE, opcode |-> <<77, 77, 68>>,
       reply |-> "none", separator |-> <<>>],
      \* lib.rs:624, "QMMD", separate("QMMD")
      [name |-> "query_maximum_motor_duty", query |-> TRUE, opcode |-> <<81, 77, 77, 68>>,
       reply |-> "separate", separator |-> <<81, 77, 77, 68>>],
      \* lib.rs:641, "SD"
      [name |-> "set_maximum_speed", query |-> FALSE, opcode |-> <<83, 68>>,
       reply |-> "none", separator |-> <<>>],
      \* lib.rs:661, "QSD", separate("QSD")
      [name |-> "query_maximum_speed", query |-> TRUE, opcode |-> <<81, 83, 68>>,
       reply |-> "separate", separator |-> <<81, 83, 68>>],
      \* lib.rs:673, "L"
      [name |-> "limp", query |-> FALSE, opcode |-> <<76>>,
       reply |-> "none", separator |-> <<>>],
      \* lib.rs:683, "H"
      [name |-> "halt_hold", query |-> FALSE, opcode |-> <<72>>,
       reply |-> "none", separator |-> <<>>],
      \* lib.rs:693, "QV", separate("QV")
      [name |-> "query_voltage", query |-> TRUE, opcode |-> <<81, 86>>,
       reply |-> "separate", separator |-> <<81, 86>>],
      \* lib.rs:707, "QT", separate("QT")
      [name |-> "query_temperature", query |-> TRUE, opcode |-> <<81, 84>>,
       reply |-> "separate", separator |-> <<81, 84>>],
      \* lib.rs:722, "QC", separate("QC")
      [name |-> "query_current", query |-> TRUE, opcode |-> <<81, 67>>,
       reply |-> "separate", separator |-> <<81, 67>>],
      \* lib.rs:736, "QMS", separate_string("QMS")
      [name |-> "query_model", query |-> TRUE, opcode |-> <<81, 77, 83>>,
       reply |-> "separate_string", separator |-> <<81, 77, 83>>],
      \* lib.rs:748, "QF", separate_string("QF")
      [name |-> "query_firmware_version", query |-> TRUE, opcode |-> <<81, 70>>,
       reply |-> "separate_string", separator |-> <<81, 70>>],
      \* lib.rs:760, "QN", separate_string("QN")
      [name |-> "query_serial_number", query |-> TRUE, opcode |-> <<81, 78>>,
       reply |-> "separate_string", separator |-> <<81, 78>>],
      \* lib.rs:775, "CLB"
      [name |-> "set_led_blinking", query |-> FALSE, opcode |-> <<67, 76, 66>>,
       reply |-> "none", separator |-> <<>>],
      \* lib.rs:808, "QO", separate("QO")
      [name |-> "query_origin_offset", query |-> TRUE, opcode |-> <<81, 79>>,
       reply |-> "separate", separator |-> <<81, 79>>],
      \* lib.rs:834, "QAR", separate("QAR")
      [name |-> "query_angular_range", query |-> TRUE, opcode |-> <<81, 65, 82>>,
       reply |-> "separate", separator |-> <<81, 65, 82>>],
      \* lib.rs:863, "CAR"
      [name |-> "set_angular_range", query |-> FALSE, opcode |-> <<67, 65, 82>>,
       reply |-> "none", separator |-> <<>>],
      \* lib.rs:891, "QP", separate("QP")
      [name |-> "query_pwm_position", query |-> TRUE, opcode |-> <<81, 80>>,
       reply |-> "separate", separator |-> <<81, 80>>],
      \* lib.rs:919, "CO"
      [name |-> "set_origin_offset", query |-> FALSE, opcode |-> <<67, 79>>,
       reply |-> "none", separator |-> <<>>],
      \* lib.rs:950, "P"
      [name |-> "move_to_pwm_position", query |-> FALSE, opcode |-> <<80>>,
       reply |-> "none", separator |-> <<>>],
      \* lib.rs:979, "P"
      [name |-> "move_to_pwm_position_with_modifier", query |-> FALSE, opcode |-> <<80>>,
       reply |-> "none", separator |-> <<>>],
      \* lib.rs:1013, "P"
      [name |-> "move_to_pwm_position_with_modifiers", query |-> FALSE, opcode |-> <<80>>,
       reply |-> "none", separator |-> <<>>] }

\* What the transport's receive may give a query.
Replies ==
    { <<42, 53, 81, 86, 49, 13>>,          \* "*5QV1\r"
      <<42, 81, 73, 68, 53, 13>> }         \* "*QID5\r"

\* how many methods are called
MaxDriverCalls == 3

VARIABLES
    method,   \* the method being run
    dpc,      \* where it is: "idle", "send" or "receive"
    tlog,     \* what reached the transport, in order: ev, call, ok
    issued,   \* the methods called, in program order: query, returned
    dcalls    \* how many more methods will be called

driverVars == <<method, dpc, tlog, issued, dcalls>>

NoMethod ==
    [name |-> "", query |-> FALSE, opcode |-> <<>>, reply |-> "none",
     separator |-> <<>>]

\* LSSDriver::with_driver
InitDriver(callsLeft) ==
    /\ method = NoMethod
    /\ dpc = "idle"
    /\ tlog = <<>>
    /\ issued = <<>>
    /\ dcalls = callsLeft

\* The caller calls a method; it runs to its return before the next call
\* (&mut self).
DriverCall(m) ==
    /\ dpc = "idle"
    /\ dcalls > 0
    /\ dcalls' = dcalls - 1
    /\ method' = m
    /\ dpc' = "send"
    /\ issued' = Append(issued, [query |-> m.query, returned |-> "running"])
    /\ UNCHANGED tlog

MethodReturns(kind) ==
    issued' = [issued EXCEPT ![Len(issued)].returned = kind]

\* A method that goes on to receive although its send failed.
DriverSend_ignores_error(ok) ==
    /\ dpc = "send"
    /\ tlog' = Append(tlog, [ev |-> "send", call |-> Len(issued), ok |-> ok])
    /\ IF method.reply # "none"
       THEN dpc' = "receive" /\ UNCHANGED issued
       ELSE dpc' = "idle" /\ MethodReturns(IF ok THEN "Ok" ELSE "SendingError")
    /\ UNCHANGED <<method, dcalls>>

\* self.driver.send(LssCommand::..(id, opcode)).await?
DriverSend(ok) ==
    /\ dpc = "send"
    /\ tlog' = Append(tlog, [ev |-> "send", call |-> Len(issued), ok |-> ok])
    /\ IF ~ok
       THEN dpc' = "idle" /\ MethodReturns("SendingError")
       ELSE IF method.reply = "none"
       THEN dpc' = "idle" /\ MethodReturns("Ok")
       ELSE dpc' = "receive" /\ UNCHANGED issued
    /\ UNCHANGED <<method, dcalls>>

\* What the method makes of the response it received.
parse_reply(m, message) ==
    IF m.reply = "separate" THEN separate(message, m.separator)
    ELSE IF m.reply = "separate_string" THEN separate_string(message, m.separator)
    ELSE get_val(message, m.separator)

\* let response = self.driver.receive().await?; response.<parse>(..)?
\* ret is what the transport's receive returns.
DriverReceive(ret) ==
    /\ dpc = "receive"
    /\ tlog' = Append(tlog,
           [ev |-> "receive", call |-> Len(issued), ok |-> ret.kind = "Ok"])
    /\ dpc' = "idle"
    /\ MethodReturns(IF ret.kind = "Ok"
                     THEN parse_reply(method, ret.frame).kind
                     ELSE ret.kind)
    /\ UNCHANGED <<method, dcalls>>

ReceiveResults ==
    { Returned("receive", "Ok", frame, "") : frame \in Replies }
        \cup { Returned("receive", "TimeoutError", <<>>, ""),
               Returned("receive", "PacketParsingError", <<>>, "Unknown error") }

\* ------------------------------------------------------------------------
\* LssCommand: simple, with_param, with_param_modifiers
\* ------------------------------------------------------------------------

\* The decimal digits of n >= 0, most significant first.
RECURSIVE Digits(_)
Digits(n) ==
    IF n < 10 THEN <<48 + n>> ELSE Append(Digits(n \div 10), 48 + (n % 10))

\* The decimal digits of the magnitude of n <= 0. Display formats the
\* magnitude as an unsigned number; the magnitude of i32::MIN is no i32, so
\* the digits are taken on the negative side.
RECURSIVE DigitsOfNegative(_)
DigitsOfNegative(n) ==
    LET d == (10 - (n % 10)) % 10
    IN  IF n > -10 THEN <<48 + d>>
        ELSE Append(DigitsOfNegative((n + d) \div 10), 48 + d)

\* "{}" of a u8
fmt_u8(n) == Digits(n)

\* A Display that writes the magnitude only.
fmt_i32_magnitude(n) == IF n >= 0 THEN Digits(n) ELSE DigitsOfNegative(n)
\* "{}" of an i32: '-' before the magnitude of a negative number
fmt_i32(n) == IF n >= 0 THEN Digits(n) ELSE <<45>> \o DigitsOfNegative(n)

\* LssCommand::simple: format!("#{}{}\r", id, cmd); the opcode is cmd
simple(id, opcode) == [message |-> <<35>> \o fmt_u8(id) \o opcode \o <<13>>]

\* LssCommand::with_param: format!("#{}{}{}\r", id, cmd, val)
with_param(id, opcode, val) ==
    [message |-> <<35>> \o fmt_u8(id) \o opcode \o fmt_i32(val) \o <<13>>]

\* LssCommand::as_bytes
as_bytes(command) == command.message

\* A motion modifier: kind "Timed", "Speed" or "CurrentLimp", and its
\* integer.
Modifier(kind, value) == [kind |-> kind, value |-> value]

\* The mnemonic of a modifier: T, S, CL.
mnemonic(kind) ==
    CASE kind = "Timed" -> <<84>>
      [] kind = "Speed" -> <<83>>
      [] kind = "CurrentLimp" -> <<67, 76>>

\* <mnemonic><integer>
modifier_text(m) == mnemonic(m.kind) \o fmt_i32(m.value)

RECURSIVE Reverse(_)
Reverse(seq) == IF seq = <<>> THEN <<>> ELSE Append(Reverse(Tail(seq)), Head(seq))

RECURSIVE modifiers_text(_)
modifiers_text(modifiers) ==
    IF modifiers = <<>> THEN <<>>
    ELSE modifier_text(Head(modifiers)) \o modifiers_text(Tail(modifiers))

\* A rendering that writes the modifiers last to first.
with_param_modifiers_reversed(id, opcode, val, modifiers) ==
    [message |-> <<35>> \o fmt_u8(id) \o opcode \o fmt_i32(val)
                     \o modifiers_text(Reverse(modifiers)) \o <<13>>]

\* LssCommand::with_param_modifiers: the parameter, then every modifier in
\* the order given, then the delimiter.
with_param_modifiers(id, opcode, val, modifiers) ==
    [message |-> <<35>> \o fmt_u8(id) \o opcode \o fmt_i32(val)
                     \o modifiers_text(modifiers) \o <<13>>]

\* An encode that starts the buffer afresh.
encode_overwrites(data, outgoing) == as_bytes(data)
\* LssCodec::encode: buf.reserve(msg.len()); buf.put(msg)
encode(data, outgoing) == outgoing \o as_bytes(data)

\* The inputs the commands are built from.
Targets == {0, 1, 5, 254, 255}
Opcodes ==
    { <<68>>,                              \* "D"
      <<81, 86>>,                          \* "QV"
      <<81, 49>> }                         \* "Q1"
ParamValues == {0, 10, 200, -2, 2147483647, -2147483647 - 1}
ModifierLists ==
    { <<Modifier("Timed", 15000)>>,
      <<Modifier("Timed", 15000), Modifier("CurrentLimp", 400)>>,
      <<Modifier("CurrentLimp", 400), Modifier("Timed", 15000)>>,
      <<Modifier("Speed", 750), Modifier("Timed", 2500)>> }

VARIABLES
    lss_command,  \* the LssCommand last built
    made          \* what it was built from: fn, id, opcode, val, modifiers

commandVars == <<lss_command, made>>

NoCommand == [message |-> <<>>]
NoCall == [fn |-> "none", id |-> 0, opcode |-> <<>>, val |-> 0, modifiers |-> <<>>]

InitCommand ==
    /\ lss_command = NoCommand
    /\ made = NoCall

NewSimple(id, opcode) ==
    /\ lss_command' = simple(id, opcode)
    /\ made' = [fn |-> "simple", id |-> id, opcode |-> opcode, val |-> 0,
                modifiers |-> <<>>]

NewWithParam(id, opcode, val) ==
    /\ lss_command' = with_param(id, opcode, val)
    /\ made' = [fn |-> "with_param", id |-> id, opcode |-> opcode, val |-> val,
                modifiers |-> <<>>]

NewWithParamModifiers(id, opcode, val, modifiers) ==
    /\ lss_command' = with_param_modifiers(id, opcode, val, modifiers)
    /\ made' = [fn |-> "with_param_modifiers", id |-> id, opcode |-> opcode,
                val |-> val, modifiers |-> modifiers]

\* ------------------------------------------------------------------------
\* LssCodec::encode into an outgoing buffer, and the buffer decoded back
\* ------------------------------------------------------------------------

\* The commands encoded.
EncodeCommands ==
    { simple(5, <<81, 86>>),               \* "#5QV\r"
      simple(5, <<81, 84>>),               \* "#5QT\r"
      with_param(1, <<68>>, -2),           \* "#1D-2\r"
      simple(1, <<81, 13, 86>>),           \* an opcode that holds a '\r'
      simple(5, <<195, 169>>) }            \* an opcode of one two-byte character

\* What the outgoing buffer holds before the first encode.
PriorContents ==
    { <<>>,
      <<35, 53, 81, 86, 13>>,              \* "#5QV\r"
      <<35, 49>> }                         \* "#1"

\* how many commands are encoded, and how many times the buffer is decoded
MaxEncodes == 2
MaxReadBacks == 3

VARIABLES
    buf,      \* the outgoing BytesMut
    prior,    \* what it held before the first encode
    encoded,  \* the commands encoded, in order
    decoded   \* one record per decode call on buf, in call order

encodeVars == <<buf, prior, encoded, decoded>>

InitEncode(contents) ==
    /\ buf \in contents
    /\ prior = buf
    /\ encoded = <<>>
    /\ decoded = <<>>

\* codec.encode(command, &mut buf)
Encode(data) ==
    /\ Len(encoded) < MaxEncodes
    /\ buf' = encode(data, buf)
    /\ encoded' = Append(encoded, data)
    /\ UNCHANGED <<prior, decoded>>

\* codec.decode(&mut buf) on the same buffer. The record keeps the buffer
\* before and after, and how many commands had been encoded.
DecodeBack ==
    /\ Len(decoded) < MaxReadBacks
    /\ LET d == decode(buf)
       IN  /\ buf' = d.rest
           /\ decoded' = Append(decoded,
                  [pre |-> buf, kind |-> d.kind, line |-> d.line,
                   post |-> d.rest, after |-> Len(encoded)])
    /\ UNCHANGED <<prior, encoded>>

\* ------------------------------------------------------------------------
\* LssResponse::new on the replies a device may send, and the three parsers
\* ------------------------------------------------------------------------

RECURSIVE Flatten(_)
Flatten(seqs) == IF seqs = <<>> THEN <<>> ELSE Head(seqs) \o Flatten(Tail(seqs))

\* What a reply is put together from: digits, a sign, an opcode, a letter.
Pieces ==
    { <<53>>,                                        \* "5"
      <<50, 53>>,                                    \* "25"
      <<49, 51, 50>>,                                \* "132"
      <<45, 50>>,                                    \* "-2"
      <<50, 49, 52, 55, 52, 56, 51, 54, 52, 55>>,    \* "2147483647"
      <<81, 68>>,                                    \* "QD"
      <<72>> }                                       \* "H"

\* how many pieces a reply is put together from
MaxPieces == 4

\* Outgoing frames that come back on the line: "#5QD132\r" and "#5QD\r".
Echoes ==
    { as_bytes(with_param(5, <<81, 68>>, 132)), as_bytes(simple(5, <<81, 68>>)) }

\* The texts handed to LssResponse::new: '*', the pieces, '\r'; and the
\* echoes, which decode returns like any other line.
Responses ==
    { <<42>> \o Flatten(ps) \o <<13>> :
          ps \in UNION { [1..n -> Pieces] : n \in 0..MaxPieces } }
        \cup Echoes

\* The separators the parsers are called with: "QD", "ZA" and "".
ResponseSeparators == { <<81, 68>>, <<90, 65>>, <<>> }

VARIABLES
    message,  \* LssResponse.message
    parsed    \* the last parser call on it: op, sep, res

respVars == <<message, parsed>>

\* LssResponse::new(message)
InitResponse(messages) ==
    /\ message \in messages
    /\ parsed = NoOut

ResponseSeparate(separator) ==
    /\ parsed' = [op |-> "separate", sep |-> separator,
                  res |-> separate(message, separator)]
    /\ UNCHANGED message

ResponseSeparateString(separator) ==
    /\ parsed' = [op |-> "separate_string", sep |-> separator,
                  res |-> separate_string(message, separator)]
    /\ UNCHANGED message

ResponseGetVal(separator) ==
    /\ parsed' = [op |-> "get_val", sep |-> separator,
                  res |-> get_val(message, separator)]
    /\ UNCHANGED message

\* The text of the String each PacketParsingError of the parsers is built
\* with.
ErrorText(msg) ==
    CASE msg = "Failed to extract id" ->
             <<70, 97, 105, 108, 101, 100, 32, 116, 111, 32, 101, 120, 116,
               114, 97, 99, 116, 32, 105, 100>>
      [] msg = "Failed parsing id" ->
             <<70, 97, 105, 108, 101, 100, 32, 112, 97, 114, 115, 105, 110,
               103, 32, 105, 100>>
      [] msg = "Failed to extract value" ->
             <<70, 97, 105, 108, 101, 100, 32, 116, 111, 32, 101, 120, 116,
               114, 97, 99, 116, 32, 118, 97, 108, 117, 101>>
      [] msg = "Failed parsing value" ->
             <<70, 97, 105, 108, 101, 100, 32, 112, 97, 114, 115, 105, 110,
               103, 32, 118, 97, 108, 117, 101>>
      [] msg = "failed to extract value" ->
             <<102, 97, 105, 108, 101, 100, 32, 116, 111, 32, 101, 120, 116,
               114, 97, 99, 116, 32, 118, 97, 108, 117, 101>>
      [] msg = "failed to parse int" ->
             <<102, 97, 105, 108, 101, 100, 32, 116, 111, 32, 112, 97, 114,
               115, 101, 32, 105, 110, 116>>
      [] OTHER -> <<>>

\* ------------------------------------------------------------------------
\* message_types: LedColor, MotorStatus, SafeModeStatus decoded from an i32
\* ------------------------------------------------------------------------

\* The variants as the enums declare them, each with its discriminant.
LedColor ==
    [Off |-> 0, Red |-> 1, Green |-> 2, Blue |-> 3, Yellow |-> 4, Cyan |-> 5,
     Magenta |-> 6, White |-> 7]
MotorStatus ==
    [Unknown |-> 0, Limp |-> 1, FreeMoving |-> 2, Accelerating |-> 3,
     Traveling |-> 4, Decelerating |-> 5, Holding |-> 6, OutsideLimits |-> 7,
     Stuck |-> 8, Blocked |-> 9, SafeMode |-> 10]
SafeModeStatus ==
    [NoLimits |-> 0, CurrentLimit |-> 1, InputVoltageOutOfRange |-> 2,
     TemperatureLimit |-> 3]

\* Ok(variant), and Err(PacketParsingError::new(message)): the error is a
\* PacketParsingError whose message is the formatted text.
EnumOk(variant) ==
    [kind |-> "Ok", variant |-> variant, error |-> "", detail |-> <<>>]
PacketParsingError_new(text) ==
    [kind |-> "Err", variant |-> "", error |-> "PacketParsingError", detail |-> text]

\* format!("Failed parsing <enum> from {}", value)
failed_parsing(enum, value) ==
    <<70, 97, 105, 108, 101, 100, 32, 112, 97, 114, 115, 105, 110, 103, 32>>   \* "Failed parsing "
        \o enum
        \o <<32, 102, 114, 111, 109, 32>>                 \* " from "
        \o fmt_i32(value)

\* LedColor::from_i32: the match, arm by arm
LedColor_from_i32(number) ==
    CASE number = 0 -> EnumOk("Off")
      [] number = 1 -> EnumOk("Red")
      [] number = 2 -> EnumOk("Green")
      [] number = 3 -> EnumOk("Blue")
      [] number = 4 -> EnumOk("Yellow")
      [] number = 5 -> EnumOk("Cyan")
      [] number = 6 -> EnumOk("Magenta")
      [] number = 7 -> EnumOk("White")
      [] OTHER -> PacketParsingError_new(failed_parsing(
                     <<76, 101, 100, 67, 111, 108, 111, 114>>, number))

\* A decoder that takes every unknown code for Unknown.
MotorStatus_from_i32_or_unknown(number) ==
    CASE number = 1 -> EnumOk("Limp")
      [] number = 2 -> EnumOk("FreeMoving")
      [] number = 3 -> EnumOk("Accelerating")
      [] number = 4 -> EnumOk("Traveling")
      [] number = 5 -> EnumOk("Decelerating")
      [] number = 6 -> EnumOk("Holding")
      [] number = 7 -> EnumOk("OutsideLimits")
      [] number = 8 -> EnumOk("Stuck")
      [] number = 9 -> EnumOk("Blocked")
      [] number = 10 -> EnumOk("SafeMode")
      [] OTHER -> EnumOk("Unknown")

\* MotorStatus::from_i32
MotorStatus_from_i32(number) ==
    CASE number = 0 -> EnumOk("Unknown")
      [] number = 1 -> EnumOk("Limp")
      [] number = 2 -> EnumOk("FreeMoving")
      [] number = 3 -> EnumOk("Accelerating")
      [] number = 4 -> EnumOk("Traveling")
      [] number = 5 -> EnumOk("Decelerating")
      [] number = 6 -> EnumOk("Holding")
      [] number = 7 -> EnumOk("OutsideLimits")
      [] number = 8 -> EnumOk("Stuck")
      [] number = 9 -> EnumOk("Blocked")
      [] number = 10 -> EnumOk("SafeMode")
      [] OTHER -> PacketParsingError_new(failed_parsing(
                     <<77, 111, 116, 111, 114, 83, 116, 97, 116, 117, 115>>,
                     number))

\* SafeModeStatus::from_i32
SafeModeStatus_from_i32(number) ==
    CASE number = 0 -> EnumOk("NoLimits")
      [] number = 1 -> EnumOk("CurrentLimit")
      [] number = 2 -> EnumOk("InputVoltageOutOfRange")
      [] number = 3 -> EnumOk("TemperatureLimit")
      [] OTHER -> PacketParsingError_new(failed_parsing(
                     <<83, 97, 102, 101, 77, 111, 100, 101, 83, 116, 97, 116,
                       117, 115>>,
                     number))

\* The integers decoded: around the known ranges, 42, and the ends of i32.
Codes == (-4 .. 44) \cup {255, 256, 2147483647, -2147483647 - 1}

VARIABLES
    enum_call,  \* the decoder last called: enum, number
    enum_ret    \* what it returned

enumVars == <<enum_call, enum_ret>>

InitEnum ==
    /\ enum_call = [enum |-> "none", number |-> 0]
    /\ enum_ret = EnumOk("")

DecodeLedColor(number) ==
    /\ enum_call' = [enum |-> "LedColor", number |-> number]
    /\ enum_ret' = LedColor_from_i32(number)

DecodeMotorStatus(number) ==
    /\ enum_call' = [enum |-> "MotorStatus", number |-> number]
    /\ enum_ret' = MotorStatus_from_i32(number)

DecodeSafeModeStatus(number) ==
    /\ enum_call' = [enum |-> "SafeModeStatus", number |-> number]
    /\ enum_ret' = SafeModeStatus_from_i32(number)

\* ------------------------------------------------------------------------
\* LSSDriver::set_led_blinking: the flags summed as i32, then .min(63)
\* ------------------------------------------------------------------------

\* The flags as the enum declares them, each with its discriminant.
LedBlinking ==
    [NoBlinking |-> 0, Limp |-> 1, Holding |-> 2, Accelerating |-> 4,
     Decelerating |-> 8, Free |-> 16, Travelling |-> 32, AlwaysBlink |-> 63]

\* i32 addition as a build without overflow checks computes it: modulo 2^32.
wrapping_add(a, b) ==
    IF a > 0 /\ b > 0 /\ a > 2147483647 - b
    THEN (a - 2147483647 - 1) + (b - 2147483647 - 1)
    ELSE IF a < 0 /\ b < 0 /\ a < (-2147483647 - 1) - b
         THEN (a + 2147483647 + 1) + (b + 2147483647 + 1)
         ELSE a + b

\* value added to itself times times, modulo 2^32
RECURSIVE wrapping_times(_, _)
wrapping_times(value, times) ==
    IF times = 0
    THEN 0
    ELSE LET half == wrapping_times(value, times \div 2)
             twice == wrapping_add(half, half)
         IN  IF times % 2 = 1 THEN wrapping_add(twice, value) ELSE twice

\* A Vec<LedBlinking> is written as its runs: <<[flag, times], ...>> stands
\* for the list holding flag times times, run after run.
\* Whether adding a run to a non-negative sum leaves the range of i32.
run_overflows(acc, value, times) ==
    value > 0 /\ times > (2147483647 - acc) \div value

\* .iter().map(|item| *item as i32).sum::<i32>(): with overflow checks the
\* first addition that overflows panics, without them the sum wraps.
RECURSIVE sum_i32(_, _, _)
sum_i32(runs, acc, overflow_checks) ==
    IF runs = <<>>
    THEN [kind |-> "value", value |-> acc]
    ELSE LET value == LedBlinking[Head(runs).flag]
             times == Head(runs).times
         IN  IF overflow_checks /\ run_overflows(acc, value, times)
             THEN [kind |-> "panic", value |-> 0]
             ELSE sum_i32(Tail(runs),
                          wrapping_add(acc, wrapping_times(value, times)),
                          overflow_checks)

\* Ord::min
min(a, b) == IF a <= b THEN a ELSE b

\* .min(LedBlinking::AlwaysBlink as i32)
clamp(sum) == min(sum, LedBlinking.AlwaysBlink)

\* set_led_blinking(id, blinking_mode): what the caller gets, and the command
\* handed to the driver's send.
set_led_blinking(id, runs, overflow_checks, ok) ==
    LET sum == sum_i32(runs, 0, overflow_checks)
    IN  IF sum.kind = "panic"
        THEN [kind |-> "panic", sent |-> <<>>, param |-> 0]
        ELSE [kind |-> IF ok THEN "Ok" ELSE "Err",
              sent |-> as_bytes(with_param(id, <<67, 76, 66>>, clamp(sum.value))),
              param |-> clamp(sum.value)]

FlagNames == DOMAIN LedBlinking

\* Lengths of a run: one flag, the same flag twice, and as many as it takes
\* for 63 * times to pass i32::MAX.
RunLengths == {1, 2, 34087043}

\* how many runs a list has at most
MaxRuns == 2

VARIABLES
    blinking_mode,  \* the Vec<LedBlinking> the caller builds and passes, as runs
    checked_build,  \* whether the build checks arithmetic overflow
    blink_ret       \* what the call made with blinking_mode did

blinkVars == <<blinking_mode, checked_build, blink_ret>>

NotCalled == [kind |-> "none", sent |-> <<>>, param |-> 0]

InitBlink(builds) ==
    /\ blinking_mode = <<>>
    /\ checked_build \in builds
    /\ blink_ret = NotCalled

\* The caller puts a run of flags into the list; a list that was passed to
\* set_led_blinking is gone (moved), so a new one is begun.
PushFlags(flag, times) ==
    /\ blinking_mode' =
           IF blink_ret = NotCalled
           THEN Append(blinking_mode, [flag |-> flag, times |-> times])
           ELSE <<[flag |-> flag, times |-> times]>>
    /\ Len(blinking_mode') <= MaxRuns
    /\ blink_ret' = NotCalled
    /\ UNCHANGED checked_build

\* set_led_blinking(5, blinking_mode): the list is taken by value.
SetLedBlinking(ok) ==
    /\ blink_ret = NotCalled
    /\ blink_ret' = set_led_blinking(5, blinking_mode, checked_build, ok)
    /\ UNCHANGED <<blinking_mode, checked_build>>

\* ------------------------------------------------------------------------
\* LSSDriver queries over a FramedSerialDriver: query_id, query_position,
\* query_status, query_filter_position_count, and a servo that answers
\* ------------------------------------------------------------------------

\* An `as u8` that saturates at the ends of u8.
as_u8_saturating(value) ==
    IF value < 0 THEN 0 ELSE IF value > 255 THEN 255 ELSE value

\* value as u8: the low 8 bits
as_u8(value) == value % 256

\* What a query returns: Ok with a number num/den or with a variant, or an
\* error of the given kind.
QueryOk(num, den, variant) ==
    [kind |-> "Ok", num |-> num, den |-> den, variant |-> variant]
QueryErr(kind) == [kind |-> kind, num |-> 0, den |-> 1, variant |-> ""]

\* The last line of each query: what it makes of the parsed value.
\*   query_id, query_filter_position_count: Ok(value as u8)
\*   query_position: Ok(value as f32 / 10.0), kept as the fraction value/10
\*   query_status: MotorStatus::from_i32(value)
finish(name, value) ==
    CASE name = "query_position" -> QueryOk(value, 10, "")
      [] name = "query_status" ->
            LET status == MotorStatus_from_i32(value)
            IN  IF status.kind = "Ok"
                THEN QueryOk(0, 1, status.variant)
                ELSE QueryErr(status.error)
      [] OTHER -> QueryOk(as_u8(value), 1, "")

\* A query that rejects a reply from another address.
query_outcome_checks_id(m, id, response) ==
    LET r == parse_reply(m, response)
    IN  IF r.kind # "Ok" THEN QueryErr(r.kind)
        ELSE IF m.reply = "separate" /\ r.id # id
        THEN QueryErr("PacketParsingError")
        ELSE finish(m.name, r.val)

\* The lines of a query after receive: response.<parse>(opcode)?, then the
\* conversion. The id the query was made with takes no part.
query_outcome(m, id, response) ==
    LET r == parse_reply(m, response)
    IN  IF r.kind # "Ok" THEN QueryErr(r.kind) ELSE finish(m.name, r.val)

Queries ==
    { m \in Methods :
        m.name \in {"query_id", "query_position", "query_status",
                    "query_filter_position_count"} }

\* The id every query is made with, the addresses replies come from, and
\* the values they carry.
QueriedId == 5
ReplyAddresses == {5, 6}
ReplyValues == {6, 132, 300, -1}

\* A servo's reply to a command: "*<address><opcode><value>\r"; the reply
\* to QID as the crate's test has it, "*QID<value>\r".
reply_frame(m, address, value) ==
    IF m.name = "query_id"
    THEN <<42>> \o m.opcode \o fmt_i32(value) \o <<13>>
    ELSE <<42>> \o fmt_u8(address) \o m.opcode \o fmt_i32(value) \o <<13>>

\* how many queries are made
MaxExchanges == 2

VARIABLES
    driver,      \* the FramedSerialDriver: port, line, wire, lock, hist
    xpc,         \* where the query is: "idle" or "receive"
    asked,       \* the query being run
    unanswered,  \* the commands written that the servo did not answer yet
    replies,     \* every reply the servo sent, in order: frame, answers
    results,     \* what every query returned, in program order
    xleft        \* how many more queries will be made

exchangeVars == <<driver, xpc, asked, unanswered, replies, results, xleft>>

InitExchange(queriesLeft) ==
    /\ driver = NewSession
    /\ xpc = "idle"
    /\ asked = NoMethod
    /\ unanswered = <<>>
    /\ replies = <<>>
    /\ results = <<>>
    /\ xleft = queriesLeft

\* The frames receive has returned so far.
FramesTaken(s) ==
    Len(SelectSeq(s.hist, LAMBDA r : r.op = "receive" /\ r.kind = "Ok"))

QueryResult(m, sent, took, frame, ret) ==
    [name |-> m.name, id |-> QueriedId, sent |-> sent, took |-> took,
     frame |-> frame, ret |-> ret]

\* query_*(id), up to the receive:
\* self.driver.send(LssCommand::simple(id, opcode)).await?
Query(m, ok) ==
    /\ xpc = "idle"
    /\ xleft > 0
    /\ xleft' = xleft - 1
    /\ driver' = run_send(driver, as_bytes(simple(QueriedId, m.opcode)), ok)
    /\ IF ok
       THEN /\ xpc' = "receive"
            /\ asked' = m
            /\ unanswered' =
                   Append(unanswered, [n |-> Len(results) + 1, method |-> m])
            /\ UNCHANGED results
       ELSE /\ results' = Append(results,
                   QueryResult(m, FALSE, 0, <<>>, QueryErr("SendingError")))
            /\ UNCHANGED <<xpc, asked, unanswered>>
    /\ UNCHANGED replies

\* The servo answers the oldest command it has not answered.
ServoReplies(address, value) ==
    /\ unanswered # <<>>
    /\ LET frame == reply_frame(Head(unanswered).method, address, value)
       IN  /\ driver' = [driver EXCEPT !.line = @ \o frame]
           /\ replies' = Append(replies,
                  [frame |-> frame, answers |-> Head(unanswered).n,
                   address |-> address, value |-> value])
    /\ unanswered' = Tail(unanswered)
    /\ UNCHANGED <<xpc, asked, results, xleft>>

\* query_*(id), from the receive on:
\* let response = self.driver.receive().await?; then the parse and the
\* conversion.
QueryReceive(ending) ==
    /\ xpc = "receive"
    /\ LET after == run_receive(driver, ending)
           ret == after.hist[Len(after.hist)]
       IN  /\ driver' = after
           /\ results' = Append(results,
                  IF ret.kind = "Ok"
                  THEN QueryResult(asked, TRUE, FramesTaken(after), ret.frame,
                                   query_outcome(asked, QueriedId, ret.frame))
                  ELSE QueryResult(asked, TRUE, 0, <<>>, QueryErr(ret.kind)))
    /\ xpc' = "idle"
    /\ UNCHANGED <<asked, unanswered, replies, xleft>>

\* ------------------------------------------------------------------------
\* Specifications
\* ------------------------------------------------------------------------

vars ==
    <<codecVars, sessVars, pairVars, driverVars, respVars, commandVars,
      encodeVars, enumVars, blinkVars, exchangeVars>>

othersOfSession ==
    <<codecVars, pairVars, driverVars, respVars, commandVars, encodeVars,
      enumVars, blinkVars, exchangeVars>>

NextCodec ==
    \/ \E chunk \in Chunks :
           Feed(chunk) /\ UNCHANGED <<sessVars, pairVars, driverVars,
                       respVars, commandVars, encodeVars,
                       enumVars, blinkVars, exchangeVars>>
    \/ Decode /\ UNCHANGED <<sessVars, pairVars, driverVars,
                       respVars, commandVars, encodeVars,
                       enumVars, blinkVars, exchangeVars>>
    \/ \E separator \in Separators :
           Separate(separator) /\ UNCHANGED <<sessVars, pairVars, driverVars,
                       respVars, commandVars, encodeVars,
                       enumVars, blinkVars, exchangeVars>>
    \/ \E separator \in Separators :
           SeparateString(separator) /\ UNCHANGED <<sessVars, pairVars, driverVars,
                       respVars, commandVars, encodeVars,
                       enumVars, blinkVars, exchangeVars>>
    \/ \E separator \in Separators :
           GetVal(separator) /\ UNCHANGED <<sessVars, pairVars, driverVars,
                       respVars, commandVars, encodeVars,
                       enumVars, blinkVars, exchangeVars>>

NextSession ==
    \/ \E chunk \in DeviceChunks :
           DeviceSends(chunk) /\ UNCHANGED <<codecVars, pairVars, driverVars,
                       respVars, commandVars, encodeVars,
                       enumVars, blinkVars, exchangeVars>>
    \/ \E c \in Contexts, command \in Commands :
           CallSend(c, command) /\ UNCHANGED <<codecVars, pairVars, driverVars,
                       respVars, commandVars, encodeVars,
                       enumVars, blinkVars, exchangeVars>>
    \/ \E c \in Contexts :
           CallReceive(c) /\ UNCHANGED <<codecVars, pairVars, driverVars,
                       respVars, commandVars, encodeVars,
                       enumVars, blinkVars, exchangeVars>>
    \/ \E c \in Contexts :
           Acquire(c) /\ UNCHANGED <<codecVars, pairVars, driverVars,
                       respVars, commandVars, encodeVars,
                       enumVars, blinkVars, exchangeVars>>
    \/ \E c \in Contexts, ok \in BOOLEAN :
           SendIo(c, ok) /\ UNCHANGED <<codecVars, pairVars, driverVars,
                       respVars, commandVars, encodeVars,
                       enumVars, blinkVars, exchangeVars>>
    \/ \E c \in Contexts :
           RecvDecode(c) /\ UNCHANGED <<codecVars, pairVars, driverVars,
                       respVars, commandVars, encodeVars,
                       enumVars, blinkVars, exchangeVars>>
    \/ \E c \in Contexts :
           RecvRead(c) /\ UNCHANGED <<codecVars, pairVars, driverVars,
                       respVars, commandVars, encodeVars,
                       enumVars, blinkVars, exchangeVars>>
    \/ \E c \in Contexts :
           RecvTimeout(c) /\ UNCHANGED <<codecVars, pairVars, driverVars,
                       respVars, commandVars, encodeVars,
                       enumVars, blinkVars, exchangeVars>>
    \/ \E c \in Contexts, msg \in {"Failed to extract message", "Unknown error"} :
           RecvStreamFails(c, msg) /\ UNCHANGED <<codecVars, pairVars, driverVars,
                       respVars, commandVars, encodeVars,
                       enumVars, blinkVars, exchangeVars>>

NextPair ==
    \/ \E chunk \in DeviceChunks :
           PairDeviceSends(chunk) /\ UNCHANGED <<codecVars, sessVars, driverVars,
                       respVars, commandVars, encodeVars,
                       enumVars, blinkVars, exchangeVars>>
    \/ \E command \in Commands, ok \in BOOLEAN :
           PairSend(command, ok) /\ UNCHANGED <<codecVars, sessVars, driverVars,
                       respVars, commandVars, encodeVars,
                       enumVars, blinkVars, exchangeVars>>
    \/ \E ending \in {"timeout", "Failed to extract message", "Unknown error"} :
           PairReceive(ending) /\ UNCHANGED <<codecVars, sessVars, driverVars,
                       respVars, commandVars, encodeVars,
                       enumVars, blinkVars, exchangeVars>>

NextDriver ==
    \/ \E m \in Methods :
           DriverCall(m) /\ UNCHANGED <<codecVars, sessVars, pairVars,
                       respVars, commandVars, encodeVars,
                       enumVars, blinkVars, exchangeVars>>
    \/ \E ok \in BOOLEAN :
           DriverSend(ok) /\ UNCHANGED <<codecVars, sessVars, pairVars,
                       respVars, commandVars, encodeVars,
                       enumVars, blinkVars, exchangeVars>>
    \/ \E ret \in ReceiveResults :
           DriverReceive(ret) /\ UNCHANGED <<codecVars, sessVars, pairVars,
                       respVars, commandVars, encodeVars,
                       enumVars, blinkVars, exchangeVars>>

NextResponse ==
    \/ \E separator \in ResponseSeparators :
           ResponseSeparate(separator)
               /\ UNCHANGED <<codecVars, sessVars, pairVars, driverVars,
                       commandVars, encodeVars,
                       enumVars, blinkVars, exchangeVars>>
    \/ \E separator \in ResponseSeparators :
           ResponseSeparateString(separator)
               /\ UNCHANGED <<codecVars, sessVars, pairVars, driverVars,
                       commandVars, encodeVars,
                       enumVars, blinkVars, exchangeVars>>
    \/ \E separator \in ResponseSeparators :
           ResponseGetVal(separator)
               /\ UNCHANGED <<codecVars, sessVars, pairVars, driverVars,
                       commandVars, encodeVars,
                       enumVars, blinkVars, exchangeVars>>

NextCommand ==
    \/ \E id \in Targets, opcode \in Opcodes :
           NewSimple(id, opcode)
               /\ UNCHANGED <<codecVars, sessVars, pairVars, driverVars,
                       respVars, encodeVars,
                       enumVars, blinkVars, exchangeVars>>
    \/ \E id \in Targets, opcode \in Opcodes, val \in ParamValues :
           NewWithParam(id, opcode, val)
               /\ UNCHANGED <<codecVars, sessVars, pairVars, driverVars,
                       respVars, encodeVars,
                       enumVars, blinkVars, exchangeVars>>
    \/ \E id \in Targets, opcode \in Opcodes, val \in ParamValues,
             modifiers \in ModifierLists :
           NewWithParamModifiers(id, opcode, val, modifiers)
               /\ UNCHANGED <<codecVars, sessVars, pairVars, driverVars,
                       respVars, encodeVars,
                       enumVars, blinkVars, exchangeVars>>

NextEncode ==
    \/ \E data \in EncodeCommands :
           Encode(data)
               /\ UNCHANGED <<codecVars, sessVars, pairVars, driverVars,
                       respVars, commandVars,
                       enumVars, blinkVars, exchangeVars>>
    \/ DecodeBack
           /\ UNCHANGED <<codecVars, sessVars, pairVars, driverVars,
                       respVars, commandVars,
                       enumVars, blinkVars, exchangeVars>>

NextEnum ==
    \/ \E number \in Codes :
           DecodeLedColor(number)
               /\ UNCHANGED <<codecVars, sessVars, pairVars, driverVars,
                       respVars, commandVars, encodeVars, blinkVars, exchangeVars>>
    \/ \E number \in Codes :
           DecodeMotorStatus(number)
               /\ UNCHANGED <<codecVars, sessVars, pairVars, driverVars,
                       respVars, commandVars, encodeVars, blinkVars, exchangeVars>>
    \/ \E number \in Codes :
           DecodeSafeModeStatus(number)
               /\ UNCHANGED <<codecVars, sessVars, pairVars, driverVars,
                       respVars, commandVars, encodeVars, blinkVars, exchangeVars>>

NextBlink ==
    \/ \E flag \in FlagNames, times \in RunLengths :
           PushFlags(flag, times)
               /\ UNCHANGED <<codecVars, sessVars, pairVars, driverVars,
                       respVars, commandVars, encodeVars, enumVars, exchangeVars>>
    \/ \E ok \in BOOLEAN :
           SetLedBlinking(ok)
               /\ UNCHANGED <<codecVars, sessVars, pairVars, driverVars,
                       respVars, commandVars, encodeVars, enumVars, exchangeVars>>

NextExchange ==
    \/ \E m \in Queries, ok \in BOOLEAN :
           Query(m, ok)
               /\ UNCHANGED <<codecVars, sessVars, pairVars, driverVars,
                       respVars, commandVars, encodeVars, enumVars, blinkVars>>
    \/ \E address \in ReplyAddresses, value \in ReplyValues :
           ServoReplies(address, value)
               /\ UNCHANGED <<codecVars, sessVars, pairVars, driverVars,
                       respVars, commandVars, encodeVars, enumVars, blinkVars>>
    \/ \E ending \in {"timeout"} :
           QueryReceive(ending)
               /\ UNCHANGED <<codecVars, sessVars, pairVars, driverVars,
                       respVars, commandVars, encodeVars, enumVars, blinkVars>>

\* The codec and the parsers; no session is open.
Init ==
    /\ InitCodec
    /\ InitSession({}, {FALSE}, 0, 0)
    /\ InitPair(0, 0)
    /\ InitDriver(0)
    /\ InitResponse({<<>>})
    /\ InitCommand
    /\ InitEncode({<<>>})
    /\ InitEnum
    /\ InitBlink({FALSE})
    /\ InitExchange(0)

Spec == Init /\ [][NextCodec]_vars

\* One caller on a session of either build.
InitOneCaller ==
    /\ InitCodec
    /\ InitSession({1}, BOOLEAN, MaxCalls, MaxArrivals)
    /\ InitPair(0, 0)
    /\ InitDriver(0)
    /\ InitResponse({<<>>})
    /\ InitCommand
    /\ InitEncode({<<>>})
    /\ InitEnum
    /\ InitBlink({FALSE})
    /\ InitExchange(0)

SpecSession == InitOneCaller /\ [][NextSession]_vars

\* Two contexts calling into a session of the build with the Mutex.
InitTwoContexts ==
    /\ InitCodec
    /\ InitSession({1, 2}, {TRUE}, MaxGuardCalls, MaxGuardArrivals)
    /\ InitPair(0, 0)
    /\ InitDriver(0)
    /\ InitResponse({<<>>})
    /\ InitCommand
    /\ InitEncode({<<>>})
    /\ InitEnum
    /\ InitBlink({FALSE})
    /\ InitExchange(0)

SpecGuard == InitTwoContexts /\ [][NextSession]_vars

\* The two builds side by side.
InitBothBuilds ==
    /\ InitCodec
    /\ InitSession({}, {FALSE}, 0, 0)
    /\ InitPair(MaxPairCalls, MaxPairArrivals)
    /\ InitDriver(0)
    /\ InitResponse({<<>>})
    /\ InitCommand
    /\ InitEncode({<<>>})
    /\ InitEnum
    /\ InitBlink({FALSE})
    /\ InitExchange(0)

SpecPair == InitBothBuilds /\ [][NextPair]_vars

\* LSSDriver over a transport that may fail.
InitLSSDriver ==
    /\ InitCodec
    /\ InitSession({}, {FALSE}, 0, 0)
    /\ InitPair(0, 0)
    /\ InitDriver(MaxDriverCalls)
    /\ InitResponse({<<>>})
    /\ InitCommand
    /\ InitEncode({<<>>})
    /\ InitEnum
    /\ InitBlink({FALSE})
    /\ InitExchange(0)

SpecDriver == InitLSSDriver /\ [][NextDriver]_vars

\* The parsers on every reply put together from the pieces.
InitReplies ==
    /\ InitCodec
    /\ InitSession({}, {FALSE}, 0, 0)
    /\ InitPair(0, 0)
    /\ InitDriver(0)
    /\ InitResponse(Responses)
    /\ InitCommand
    /\ InitEncode({<<>>})
    /\ InitEnum
    /\ InitBlink({FALSE})
    /\ InitExchange(0)

SpecResponse == InitReplies /\ [][NextResponse]_vars

\* The commands built.
InitNoCommand ==
    /\ InitCodec
    /\ InitSession({}, {FALSE}, 0, 0)
    /\ InitPair(0, 0)
    /\ InitDriver(0)
    /\ InitResponse({<<>>})
    /\ InitCommand
    /\ InitEncode({<<>>})
    /\ InitEnum
    /\ InitBlink({FALSE})
    /\ InitExchange(0)

SpecCommand == InitNoCommand /\ [][NextCommand]_vars

\* Commands encoded into an outgoing buffer that is then decoded.
InitOutgoing ==
    /\ InitCodec
    /\ InitSession({}, {FALSE}, 0, 0)
    /\ InitPair(0, 0)
    /\ InitDriver(0)
    /\ InitResponse({<<>>})
    /\ InitCommand
    /\ InitEncode(PriorContents)
    /\ InitEnum
    /\ InitBlink({FALSE})
    /\ InitExchange(0)

SpecEncode == InitOutgoing /\ [][NextEncode]_vars

\* The enumerations decoded from every code.
InitNothingDecoded ==
    /\ InitCodec
    /\ InitSession({}, {FALSE}, 0, 0)
    /\ InitPair(0, 0)
    /\ InitDriver(0)
    /\ InitResponse({<<>>})
    /\ InitCommand
    /\ InitEncode({<<>>})
    /\ InitEnum
    /\ InitBlink({FALSE})
    /\ InitExchange(0)

SpecEnum == InitNothingDecoded /\ [][NextEnum]_vars

\* set_led_blinking called with every list of runs, in both builds.
InitNoBlinking ==
    /\ InitCodec
    /\ InitSession({}, {FALSE}, 0, 0)
    /\ InitPair(0, 0)
    /\ InitDriver(0)
    /\ InitResponse({<<>>})
    /\ InitCommand
    /\ InitEncode({<<>>})
    /\ InitEnum
    /\ InitBlink(BOOLEAN)
    /\ InitExchange(0)

SpecBlink == InitNoBlinking /\ [][NextBlink]_vars

\* Queries made one after another over one session, and a servo answering.
InitQueries ==
    /\ InitCodec
    /\ InitSession({}, {FALSE}, 0, 0)
    /\ InitPair(0, 0)
    /\ InitDriver(0)
    /\ InitResponse({<<>>})
    /\ InitCommand
    /\ InitEncode({<<>>})
    /\ InitEnum
    /\ InitBlink({FALSE})
    /\ InitExchange(MaxExchanges)

SpecExchange == InitQueries /\ [][NextExchange]_vars

\* One caller on a session whose futures are polled and whose timer runs:
\* a step of receive that stays possible is taken, and TIMEOUT elapses.
InitTimedCaller ==
    /\ InitCodec
    /\ InitSession({1}, BOOLEAN, MaxTimedCalls, MaxTimedArrivals)
    /\ InitPair(0, 0)
    /\ InitDriver(0)
    /\ InitResponse({<<>>})
    /\ InitCommand
    /\ InitEncode({<<>>})
    /\ InitEnum
    /\ InitBlink({FALSE})
    /\ InitExchange(0)

Polled ==
    /\ WF_vars(\E c \in Contexts : Acquire(c) /\ UNCHANGED othersOfSession)
    /\ WF_vars(\E c \in Contexts : RecvDecode(c) /\ UNCHANGED othersOfSession)
    /\ WF_vars(\E c \in Contexts : RecvRead(c) /\ UNCHANGED othersOfSession)
    /\ WF_vars(\E c \in Contexts : RecvTimeout(c) /\ UNCHANGED othersOfSession)

SpecTimer == InitTimedCaller /\ [][NextSession]_vars /\ Polled

\* ------------------------------------------------------------------------
\* Properties of the codec
\* ------------------------------------------------------------------------

HasCR(s) == \E i \in 1..Len(s) : s[i] = CR
CRCount(s) == Cardinality({i \in 1..Len(s) : s[i] = CR})

\* The 1-based place of the k-th delimiter of s (0 for k = 0).
CRPlace(s, k) ==
    IF k = 0 THEN 0
    ELSE CHOOSE p \in 1..Len(s) :
             s[p] = CR /\ Cardinality({q \in 1..p : s[q] = CR}) = k

\* The k-th complete frame of the byte stream s: what lies after the
\* (k-1)-th delimiter up to and including the k-th.
FrameOf(s, k) == SubSeq(s, CRPlace(s, k - 1) + 1, CRPlace(s, k))

\* The bytes that had arrived when call i was made.
SeenBy(i) == SubSeq(fed, 1, calls[i].seen)
\* How many of the calls before call i removed a frame.
RemovedBefore(i) == Cardinality({j \in 1..(i - 1) : calls[j].kind # "none"})

\* C1: decode on a buffer with no delimiter (the empty buffer included)
\* returns Ok(None) and leaves the buffer as it was, however often it is
\* called before new bytes arrive.
C1_NoDelimiterReturnsNone ==
    \A i \in 1..Len(calls) :
        ~HasCR(calls[i].pre) =>
            /\ calls[i].kind = "none"
            /\ i < Len(calls) /\ calls[i + 1].at = calls[i].at =>
                   calls[i + 1].pre = calls[i].pre /\ calls[i + 1].kind = "none"
            /\ i = Len(calls) /\ nfeeds = calls[i].at => src = calls[i].pre

\* decode was called on the empty buffer, and then three times in a row on
\* the same partial frame.
C1_Witness ==
    /\ Len(calls) = 4
    /\ calls[1].pre = <<>> /\ calls[1].kind = "none"
    /\ \A i \in 2..4 : calls[i].pre = <<42, 49, 81, 86>> /\ calls[i].kind = "none"
    /\ src = <<42, 49, 81, 86>>

\* C2 as stated: with the first delimiter at offset n, the call returns the
\* first n+1 bytes as a frame and leaves the bytes after offset n.
C2_FrameAlwaysReturned ==
    \A i \in 1..Len(calls) :
        \A n \in 0..(Len(calls[i].pre) - 1) :
            (calls[i].pre[n + 1] = CR /\ \A m \in 0..(n - 1) : calls[i].pre[m + 1] # CR) =>
                /\ calls[i].kind = "some"
                /\ calls[i].line = SubSeq(calls[i].pre, 1, n + 1)
                /\ calls[i].post = SubSeq(calls[i].pre, n + 2, Len(calls[i].pre))

\* C2, amended: with the first delimiter at offset n, the call removes
\* exactly the first n+1 bytes (which end with the delimiter and hold no
\* other) and leaves the bytes after offset n unchanged and in order; it
\* returns the removed bytes as one frame when they are valid UTF-8, and an
\* error otherwise.
C2_FirstFrameRemoved ==
    \A i \in 1..Len(calls) :
        \A n \in 0..(Len(calls[i].pre) - 1) :
            (calls[i].pre[n + 1] = CR /\ \A m \in 0..(n - 1) : calls[i].pre[m + 1] # CR) =>
                LET c == calls[i]
                    after == IF i < Len(calls) THEN calls[i + 1].pre ELSE src
                IN  /\ c.line = SubSeq(c.pre, 1, n + 1)
                    /\ Len(c.line) = n + 1
                    /\ c.line[n + 1] = CR
                    /\ CRCount(c.line) = 1
                    /\ c.post = SubSeq(c.pre, n + 2, Len(c.pre))
                    /\ c.line \o c.post = c.pre
                    /\ c.kind = IF from_utf8_ok(c.line) THEN "some" ELSE "err"
                    /\ (IF i < Len(calls) THEN calls[i + 1].at = c.at ELSE nfeeds = c.at)
                           => after = c.post

\* A frame was split off a buffer that held bytes after it, and a frame
\* that is not valid UTF-8 was split off and reported as an error.
C2_Witness ==
    /\ \E i \in 1..Len(calls) :
           /\ calls[i].kind = "some"
           /\ calls[i].line = <<49, 13>>
           /\ calls[i].post = <<42, 50, 81, 86, 50, 13>>
    /\ \E i \in 1..Len(calls) : calls[i].kind = "err" /\ calls[i].line = <<169, 13>>

\* C3: when k complete frames of text have arrived, the calls that return
\* something return the frames of the stream one at a time in arrival
\* order, and a call returns None exactly when every complete frame that
\* had arrived was already returned.
C3_FramesInArrivalOrder ==
    \A i \in 1..Len(calls) :
        LET k == CRCount(SeenBy(i))
            r == RemovedBefore(i)
        IN  /\ r <= k
            /\ calls[i].kind = "none" <=> r = k
            /\ r < k =>
                   /\ calls[i].line = FrameOf(fed, r + 1)
                   /\ from_utf8_ok(FrameOf(fed, r + 1)) => calls[i].kind = "some"

\* "*1QV1\r*2QV2\r" was in the buffer at once, and three calls gave
\* (1, 1), (2, 2) and None.
C3_Witness ==
    /\ Len(calls) >= 3
    /\ calls[1].pre = <<42, 49, 81, 86, 49, 13, 42, 50, 81, 86, 50, 13>>
    /\ calls[1].kind = "some" /\ calls[2].kind = "some" /\ calls[3].kind = "none"
    /\ separate(calls[1].line, <<81, 86>>) = ParseOk(1, 1, <<>>)
    /\ separate(calls[2].line, <<81, 86>>) = ParseOk(2, 2, <<>>)
    /\ src = <<>>

\* C4: while the bytes that have arrived hold no delimiter, every call
\* returns None and the buffer holds all of them; the first call after the
\* delimiter arrived returns the whole frame, assembled from every chunk;
\* and when nothing follows that delimiter, the next call returns None.
C4_PartialFrameResumes ==
    \A i \in 1..Len(calls) :
        LET seen == SeenBy(i)
        IN  /\ ~HasCR(seen) => calls[i].kind = "none" /\ calls[i].pre = seen
            /\ (HasCR(seen) /\ \A j \in 1..(i - 1) : ~HasCR(SeenBy(j))) =>
                   /\ calls[i].line = FrameOf(fed, 1)
                   /\ from_utf8_ok(FrameOf(fed, 1)) => calls[i].kind = "some"
                   /\ (i < Len(calls) /\ calls[i + 1].seen = calls[i].seen
                          /\ CRCount(seen) = 1 /\ seen[Len(seen)] = CR) =>
                          calls[i + 1].kind = "none"

\* A frame arrived in three parts; decode returned None after the first and
\* after the second, the whole frame after the third, and None again.
C4_Witness ==
    /\ Len(calls) = 4
    /\ calls[1].seen > 0
    /\ calls[1].seen < calls[2].seen /\ calls[2].seen < calls[3].seen
    /\ calls[1].kind = "none" /\ calls[2].kind = "none"
    /\ calls[3].kind = "some" /\ calls[3].line = fed
    /\ calls[4].kind = "none"

\* C10: separate, separate_string and get_val return a value or a
\* PacketParsingError for every frame the decoder yields and every
\* separator; they never panic.
C10_ParsersNeverPanic ==
    out.op # "none" => out.res.kind \in {"Ok", "PacketParsingError"}

\* ------------------------------------------------------------------------
\* Properties of the session
\* ------------------------------------------------------------------------

IsPrefix(s, t) == Len(s) <= Len(t) /\ SubSeq(t, 1, Len(s)) = s

TimedOut(h) == h.ret.kind = "TimeoutError"

\* C5: a call that times out is a receive and returns TimeoutError; the
\* bytes read so far that the codec has not removed are all still in the
\* read buffer when it returns, and the session is free for the next call;
\* a later receive that succeeds returns the next frame of the stream,
\* which begins with the bytes that were buffered at the timeout.
C5_TimeoutKeepsBuffer ==
    /\ \A i \in 1..Len(hist) :
           LET h == hist[i]
           IN  /\ TimedOut(h) =>
                      /\ h.ret = Returned("receive", "TimeoutError", <<>>, "")
                      /\ ~HasCR(h.rd)
                      /\ Flatten(SubSeq(taken, 1, h.ntaken)) \o h.rd
                             = SubSeq(got, 1, h.got)
                      /\ \A j \in (i + 1)..Len(hist) :
                             (hist[j].ret.kind = "Ok" /\ hist[j].ret.op = "receive"
                                  /\ hist[j].ntaken = h.ntaken + 1) =>
                                 IsPrefix(h.rd, hist[j].ret.frame)
               /\ (h.ret.op = "receive" /\ h.ret.kind = "Ok") =>
                      h.ret.frame = FrameOf(got, h.ntaken)
    /\ (hist # <<>> /\ TimedOut(hist[Len(hist)])) =>
           \A c \in Contexts :
               pc[c] = "idle" =>
                   /\ lock = Unlocked
                   /\ port.rd = hist[Len(hist)].rd
                   /\ ncalls > 0 => ENABLED CallSend(c, <<35, 53, 81, 86, 13>>)

\* A receive timed out with "*5QV" buffered; then a send succeeded; then,
\* the device having sent "1\r", a receive returned "*5QV1\r".
C5_Witness ==
    /\ Len(hist) = 3
    /\ hist[1].ret = Returned("receive", "TimeoutError", <<>>, "")
    /\ hist[1].rd = <<42, 53, 81, 86>>
    /\ hist[2].ret = Returned("send", "Ok", <<>>, "")
    /\ hist[3].ret = Returned("receive", "Ok", <<42, 53, 81, 86, 49, 13>>, "")
    /\ separate(hist[3].ret.frame, <<81, 86>>) = ParseOk(5, 1, <<>>)

InPort(c) == pc[c] \in {"send", "recv"}

\* C8: in the build with the Mutex, a context that is inside send or
\* receive holds the guard from its first step to its return, so at most
\* one context is at work on the framed port; the Mutex is free when none
\* is.
C8_GuardHeldForCall ==
    guarded =>
        /\ Cardinality({c \in Contexts : InPort(c)}) <= 1
        /\ \A c \in Contexts : InPort(c) => lock = c
        /\ (\A c \in Contexts : ~InPort(c)) => lock = Unlocked

\* One context is in the middle of a receive, having read part of a frame,
\* while the other has called and waits for the Mutex.
C8_Witness ==
    /\ guarded
    /\ pc[1] = "recv" /\ port.rd # <<>>
    /\ pc[2] = "lock"
    /\ lock = 1

Events(k, ev) == {i \in 1..Len(tlog) : tlog[i].call = k /\ tlog[i].ev = ev}

\* C6: the transport sees the calls in program order; every method sends
\* once; a query_* method then receives once if and only if its send
\* succeeded, any other method never receives; so no two receives reach
\* the transport without a send between them.
C6_SendThenReceive ==
    /\ \A m \in Methods : m.query <=> m.reply # "none"
    /\ \A i \in 1..(Len(tlog) - 1) :
           /\ tlog[i].call <= tlog[i + 1].call
           /\ tlog[i].ev = "receive" => tlog[i + 1].ev = "send"
    /\ Len(tlog) > 0 => tlog[1].ev = "send"
    /\ \A k \in 1..Len(issued) :
           LET sends == Events(k, "send")
               receives == Events(k, "receive")
               done == issued[k].returned # "running"
           IN  /\ Cardinality(sends) <= 1
               /\ Cardinality(receives) <= 1
               /\ done => Cardinality(sends) = 1
               /\ \A r \in receives :
                      /\ issued[k].query
                      /\ \E s \in sends : s < r /\ tlog[s].ok
               /\ (done /\ issued[k].query /\ \E s \in sends : tlog[s].ok) =>
                      Cardinality(receives) = 1
               /\ k < Len(issued) => done

\* A query sent and received, an action only sent, and a query whose send
\* failed returned without receiving.
C6_Witness ==
    /\ Len(issued) = 3
    /\ issued[1].query /\ issued[1].returned = "Ok"
    /\ ~issued[2].query /\ issued[2].returned = "Ok"
    /\ issued[3].query /\ issued[3].returned = "SendingError"
    /\ Len(tlog) = 4
    /\ tlog[2].ev = "receive" /\ tlog[4].ev = "send"

\* ------------------------------------------------------------------------
\* Properties of the parsers
\* ------------------------------------------------------------------------

\* The body of the response and the fields the last parser call split it in.
Body == slice_body(message)
Fields == split(Body, parsed.sep)

IsLetters(s) == s # <<>> /\ \A i \in 1..Len(s) : s[i] >= 65 /\ s[i] <= 90

\* Decimal digits without leading zeros.
IsCanonical(ds) ==
    /\ ds # <<>>
    /\ \A i \in 1..Len(ds) : IsDigit(ds[i])
    /\ Len(ds) > 1 => ds[1] # 48

\* An address 0..255 as the device writes it.
IsAddressText(s) == IsCanonical(s) /\ ~DigitsGreater(s, <<50, 53, 53>>)

\* A signed decimal integer of 32 bits as the device writes it.
IsValueText(s) ==
    /\ s # <<>>
    /\ IF s[1] = 45
       THEN /\ IsCanonical(Tail(s))
            /\ ~DigitsGreater(Tail(s), <<50, 49, 52, 55, 52, 56, 51, 54, 52, 56>>)
       ELSE /\ IsCanonical(s)
            /\ ~DigitsGreater(s, <<50, 49, 52, 55, 52, 56, 51, 54, 52, 55>>)

\* An integer written in decimal, of any size, with or without a sign.
IsInteger(s) ==
    /\ s # <<>>
    /\ LET ds == IF s[1] = 43 \/ s[1] = 45 THEN Tail(s) ELSE s
       IN  ds # <<>> /\ \A i \in 1..Len(ds) : IsDigit(ds[i])

Occurs(sep, s) == \E i \in 1..Len(s) : MatchAt(s, sep, i)

\* C11: when the response is '*', an address 0..255, the opcode, a signed
\* decimal value and '\r', separate(opcode) returns that address and that
\* value: written back in decimal they are the two fields.
C11_SeparateReturnsFields ==
    (parsed.op = "separate" /\ IsLetters(parsed.sep)) =>
        \A i \in 2..(Len(message) - 1) :
            LET address == SubSeq(message, 2, i - 1)
                value == SubSeq(message, i + Len(parsed.sep), Len(message) - 1)
            IN  (/\ message[1] = 42
                 /\ message[Len(message)] = 13
                 /\ MatchAt(message, parsed.sep, i)
                 /\ IsAddressText(address)
                 /\ IsValueText(value)) =>
                    /\ parsed.res.kind = "Ok"
                    /\ fmt_u8(parsed.res.id) = address
                    /\ fmt_i32(parsed.res.val) = value

\* "*5QD-2\r".separate("QD") gave (5, -2).
C11_Witness ==
    /\ message = <<42, 53, 81, 68, 45, 50, 13>>
    /\ parsed = [op |-> "separate", sep |-> <<81, 68>>, res |-> ParseOk(5, -2, <<>>)]

\* C12: separate fails with a PacketParsingError, and returns no value,
\* whenever the opcode does not occur in the body, the address field is
\* empty or no integer, or the value field is missing, empty or no integer.
C12_SeparateFailsOnBadField ==
    (/\ parsed.op = "separate"
     /\ \/ ~Occurs(parsed.sep, Body)
        \/ ~IsInteger(Fields[1])
        \/ Len(Fields) < 2
        \/ ~IsInteger(Fields[2])) =>
        /\ parsed.res.kind = "PacketParsingError"
        /\ parsed.res = PacketParsingError(parsed.res.msg)

\* "*5QD\r".separate("QD") failed on the empty value field.
C12_Witness ==
    /\ message = <<42, 53, 81, 68, 13>>
    /\ parsed = [op |-> "separate", sep |-> <<81, 68>>,
                 res |-> PacketParsingError("Failed parsing value")]

\* C13 as stated: separate succeeds only when the split yields exactly two
\* fields.
C13_ExactlyTwoFields ==
    (parsed.op = "separate" /\ parsed.res.kind = "Ok") => Len(Fields) = 2

\* C14: get_val returns the last field as an integer whatever precedes the
\* last occurrence of the opcode (an address, nothing, or anything else),
\* and fails with a PacketParsingError when the last field is no integer.
C14_GetValTakesLastField ==
    parsed.op = "get_val" =>
        /\ IsLetters(parsed.sep) =>
               \A i \in 2..(Len(message) - 1) :
                   LET value == SubSeq(message, i + Len(parsed.sep), Len(message) - 1)
                   IN  (/\ message[1] = 42
                        /\ message[Len(message)] = 13
                        /\ MatchAt(message, parsed.sep, i)
                        /\ IsValueText(value)) =>
                           /\ parsed.res.kind = "Ok"
                           /\ fmt_i32(parsed.res.val) = value
        /\ ~IsInteger(Fields[Len(Fields)]) =>
               parsed.res = PacketParsingError(parsed.res.msg)

\* "*QD5QD132\r".get_val("QD") gave 132, the last of three fields.
C14_Witness ==
    /\ message = <<42, 81, 68, 53, 81, 68, 49, 51, 50, 13>>
    /\ parsed = [op |-> "get_val", sep |-> <<81, 68>>, res |-> ParseOk(0, 132, <<>>)]

\* C15: separate_string succeeds exactly when the first field parses as an
\* address and a second field exists, and then returns that address and the
\* second field as it is; separate succeeds on the same response exactly
\* when separate_string does and the second field parses as an i32, and
\* then returns the same address.
C15_SeparateStringVerbatim ==
    parsed.op = "separate_string" =>
        LET numeric == separate(message, parsed.sep)
        IN  /\ parsed.res.kind = "Ok" <=>
                   (parse_u8(Fields[1]).ok /\ Len(Fields) >= 2)
            /\ parsed.res.kind = "Ok" =>
                   /\ parsed.res.id = parse_u8(Fields[1]).val
                   /\ parsed.res.text = Fields[2]
            /\ parsed.res.kind # "Ok" => parsed.res = PacketParsingError(parsed.res.msg)
            /\ numeric.kind = "Ok" <=>
                   (parsed.res.kind = "Ok" /\ parse_i32(parsed.res.text).ok)
            /\ numeric.kind = "Ok" =>
                   /\ numeric.id = parsed.res.id
                   /\ numeric.val = parse_i32(parsed.res.text).val

\* "*5QDHQD\r".separate_string("QD") gave (5, "H"), which separate rejects.
C15_Witness ==
    /\ message = <<42, 53, 81, 68, 72, 81, 68, 13>>
    /\ parsed = [op |-> "separate_string", sep |-> <<81, 68>>,
                 res |-> ParseOk(5, 0, <<72>>)]
    /\ separate(message, parsed.sep).kind = "PacketParsingError"

\* C16 as stated: the text of every PacketParsingError of the parsers holds
\* the opcode that was tried and the raw response.
C16_ErrorCarriesContext ==
    (parsed.op # "none" /\ parsed.res.kind = "PacketParsingError") =>
        /\ Occurs(parsed.sep, ErrorText(parsed.res.msg))
        /\ Occurs(message, ErrorText(parsed.res.msg))

\* ------------------------------------------------------------------------
\* Properties of the commands and of encode
\* ------------------------------------------------------------------------

\* C17: simple renders '#', the target, the opcode, '\r', and with_param
\* the same with the value after the opcode; the target and the value are
\* decimal without leading zeros, read back as the numbers given, and the
\* value begins with '-' exactly when it is negative.
C17_CommandRendering ==
    made.fn \in {"simple", "with_param"} =>
        LET m == lss_command.message
            n == Len(m)
        IN  /\ m[1] = 35
            /\ m[n] = 13
            /\ \E k \in 1..3 :
                   LET target == SubSeq(m, 2, 1 + k)
                       rest == SubSeq(m, 2 + k, n - 1)
                       value == SubSeq(rest, Len(made.opcode) + 1, Len(rest))
                   IN  /\ IsCanonical(target)
                       /\ parse_u8(target) = SomeInt(made.id)
                       /\ IsPrefix(made.opcode, rest)
                       /\ IF made.fn = "simple"
                          THEN value = <<>>
                          ELSE /\ IsValueText(value)
                               /\ parse_i32(value) = SomeInt(made.val)
                               /\ value[1] = 45 <=> made.val < 0

\* with_param(1, "D", 200) gave "#1D200\r".
C17_Witness ==
    /\ made = [fn |-> "with_param", id |-> 1, opcode |-> <<68>>, val |-> 200,
               modifiers |-> <<>>]
    /\ lss_command.message = <<35, 49, 68, 50, 48, 48, 13>>

\* The field of a modifier on the wire.
ModifierField(m) == mnemonic(m.kind) \o fmt_i32(m.value)

\* C18: with_param_modifiers renders what with_param renders, then the
\* field of every modifier in the order of the list, then the one
\* delimiter; and the same list in any other order renders the same fields
\* in that order.
C18_ModifiersInCallerOrder ==
    made.fn = "with_param_modifiers" =>
        LET m == lss_command.message
            base == with_param(made.id, made.opcode, made.val).message
            head == SubSeq(base, 1, Len(base) - 1)
            count == Len(made.modifiers)
            fields == [i \in 1..count |-> ModifierField(made.modifiers[i])]
        IN  /\ m = head \o Flatten(fields) \o <<13>>
            /\ \A i \in 1..(Len(m) - 1) : m[i] # 13
            /\ \A p \in Permutations(1..count) :
                   LET permuted == [i \in 1..count |-> made.modifiers[p[i]]]
                   IN  with_param_modifiers(made.id, made.opcode, made.val,
                                            permuted).message
                           = head \o Flatten([i \in 1..count |-> fields[p[i]]])
                                  \o <<13>>

\* [Timed(15000), CurrentLimp(400)] on D200 gave "#1D200T15000CL400\r".
C18_Witness ==
    /\ made.fn = "with_param_modifiers"
    /\ made.modifiers = <<Modifier("Timed", 15000), Modifier("CurrentLimp", 400)>>
    /\ lss_command.message =
           <<35, 49, 68, 50, 48, 48, 84, 49, 53, 48, 48, 48, 67, 76, 52, 48, 48, 13>>

\* The bytes of the commands encoded so far, in order.
EncodedBytes == Flatten([i \in 1..Len(encoded) |-> as_bytes(encoded[i])])
\* The bytes the decode calls took off the buffer, in order.
DecodedBytes == Flatten([i \in 1..Len(decoded) |-> decoded[i].line])

\* C19: the buffer is what it held before, followed by the bytes of the
\* commands encoded, in order; and when decode calls have taken lines off
\* its front, those lines followed by the buffer are.
C19_EncodeAppends ==
    /\ decoded = <<>> => buf = prior \o EncodedBytes
    /\ DecodedBytes \o buf = prior \o EncodedBytes

\* "#5QV\r" and "#5QT\r" were encoded into a buffer that held "#1".
C19_Witness ==
    /\ prior = <<35, 49>>
    /\ encoded = <<simple(5, <<81, 86>>), simple(5, <<81, 84>>)>>
    /\ decoded = <<>>
    /\ buf = <<35, 49, 35, 53, 81, 86, 13, 35, 53, 81, 84, 13>>

\* C20: when one command whose text holds no delimiter but its last byte
\* was encoded into an empty buffer, the first decode returns a response
\* with exactly that text and leaves the buffer empty, and a second decode
\* returns None.
C20_EncodeDecodeRoundTrip ==
    \A i \in 1..Len(decoded) :
        (/\ i = 1
         /\ prior = <<>>
         /\ decoded[i].after = 1
         /\ CRCount(as_bytes(encoded[1])) = 1) =>
            /\ decoded[i].pre = as_bytes(encoded[1])
            /\ decoded[i].kind = "some"
            /\ decoded[i].line = as_bytes(encoded[1])
            /\ decoded[i].post = <<>>
            /\ (Len(decoded) > i /\ decoded[i + 1].after = 1) =>
                   decoded[i + 1].kind = "none" /\ decoded[i + 1].post = <<>>

\* "#1D-2\r" was encoded into an empty buffer; decode returned it, then None.
C20_Witness ==
    /\ prior = <<>>
    /\ encoded = <<with_param(1, <<68>>, -2)>>
    /\ Len(decoded) = 2
    /\ decoded[1].kind = "some"
    /\ decoded[1].line = <<35, 49, 68, 45, 50, 13>>
    /\ decoded[2].kind = "none"
    /\ buf = <<>>

\* ------------------------------------------------------------------------
\* Properties of the enumerations decoded
\* ------------------------------------------------------------------------

\* The enum's declaration and the codes it declares.
Declared(enum) ==
    CASE enum = "LedColor" -> LedColor
      [] enum = "MotorStatus" -> MotorStatus
      [] enum = "SafeModeStatus" -> SafeModeStatus
KnownCodes(enum) ==
    CASE enum = "LedColor" -> 0..7
      [] enum = "MotorStatus" -> 0..10
      [] enum = "SafeModeStatus" -> 0..3

\* C21: MotorStatus::from_i32 succeeds exactly for 0..10, LedColor::from_i32
\* exactly for 0..7 and SafeModeStatus::from_i32 exactly for 0..3, each with
\* the variant whose declared discriminant is the input (10 is SafeMode);
\* every other integer is an error, never a default variant.
C21_EnumDecodingTotal ==
    enum_call.enum # "none" =>
        /\ KnownCodes(enum_call.enum) =
               {Declared(enum_call.enum)[v] : v \in DOMAIN Declared(enum_call.enum)}
        /\ IF enum_call.number \in KnownCodes(enum_call.enum)
           THEN /\ enum_ret.kind = "Ok"
                /\ enum_ret.variant \in DOMAIN Declared(enum_call.enum)
                /\ Declared(enum_call.enum)[enum_ret.variant] = enum_call.number
           ELSE enum_ret.kind = "Err"
        /\ (enum_call.enum = "MotorStatus" /\ enum_call.number = 10) =>
               enum_ret.variant = "SafeMode"

\* MotorStatus::from_i32(42) failed.
C21_Witness ==
    /\ enum_call = [enum |-> "MotorStatus", number |-> 42]
    /\ enum_ret.kind = "Err"

\* C22: decoding a code outside the known range fails with the error kind
\* UnrecognizedEnumValue, which is not the kind of the payload parse errors,
\* and the error holds the offending integer.
C22_UnrecognizedEnumValueKind ==
    (enum_call.enum # "none" /\ enum_ret.kind = "Err") =>
        /\ enum_ret.error = "UnrecognizedEnumValue"
        /\ enum_ret.error # PacketParsingError("Failed parsing value").kind
        /\ Occurs(fmt_i32(enum_call.number), enum_ret.detail)

\* ------------------------------------------------------------------------
\* Properties of set_led_blinking
\* ------------------------------------------------------------------------

\* The sum of the flags of the list as a natural number, counted up to 64.
RECURSIVE SumUpTo64(_)
SumUpTo64(runs) ==
    IF runs = <<>> THEN 0
    ELSE LET value == LedBlinking[Head(runs).flag]
             run == IF value = 0 THEN 0
                    ELSE IF Head(runs).times > 64 \div value THEN 64
                    ELSE value * Head(runs).times
             more == run + SumUpTo64(Tail(runs))
         IN  IF more > 64 THEN 64 ELSE more

\* C23: for every list of flags set_led_blinking sends "#5CLB<n>\r" with
\* n the smaller of the sum of the flags and 63, so n is in 0..63.
C23_SendsClampedSum ==
    blink_ret # NotCalled =>
        /\ blink_ret.kind \in {"Ok", "Err"}
        /\ blink_ret.param \in 0..63
        /\ blink_ret.param = min(SumUpTo64(blinking_mode), 63)
        /\ blink_ret.sent =
               <<35, 53, 67, 76, 66>> \o fmt_i32(blink_ret.param) \o <<13>>

\* ------------------------------------------------------------------------
\* Properties of a receive followed to its end
\* ------------------------------------------------------------------------

\* C24: when the futures are polled and the timer runs, every receive call
\* that was made returns, with a response or with an error, whether or not
\* the stream ever holds a delimiter.
C24_ReceiveCompletes ==
    (want[1] = "receive" /\ pc[1] # "idle") ~> (pc[1] = "idle")

\* A receive read bytes that hold no delimiter and returned TimeoutError.
C24_Witness ==
    \E i \in 1..Len(hist) :
        /\ TimedOut(hist[i])
        /\ hist[i].got > 0
        /\ ~HasCR(got)
        /\ pc[1] = "idle"

\* ------------------------------------------------------------------------
\* Properties of the start-of-frame marker
\* ------------------------------------------------------------------------

\* C25: a response that separate, separate_string or get_val parses with
\* success begins with the marker '*'; a line that begins with another
\* character, such as the echo "#5QD132\r", is not parsed into a result.
C25_ParsedBeginsWithMarker ==
    (parsed.op # "none" /\ parsed.res.kind = "Ok") => message[1] = 42

\* ------------------------------------------------------------------------
\* Properties of the bytes the codec removes
\* ------------------------------------------------------------------------

\* C26: when the first frame in the buffer is not valid UTF-8, decode
\* returns an error and the frame, delimiter included, is out of the
\* buffer; the bytes after it stay as they were, and the next call goes on
\* with them: it returns the frame that follows when that one is complete.
C26_RejectedFrameStaysConsumed ==
    \A i \in 1..Len(calls) :
        (HasCR(calls[i].pre) /\ ~from_utf8_ok(FrameOf(calls[i].pre, 1))) =>
            /\ calls[i].kind = "err"
            /\ calls[i].post =
                   SubSeq(calls[i].pre, CRPlace(calls[i].pre, 1) + 1,
                          Len(calls[i].pre))
            /\ i < Len(calls) =>
                   /\ IsPrefix(calls[i].post, calls[i + 1].pre)
                   /\ HasCR(calls[i].post) =>
                          /\ calls[i + 1].kind # "none"
                          /\ calls[i + 1].line = FrameOf(calls[i].post, 1)

\* <169, '1', '\r'> was rejected, and the next call returned "*2QV2\r".
C26_Witness ==
    /\ Len(calls) >= 2
    /\ calls[1].pre = <<169, 49, 13, 42, 50, 81, 86, 50, 13>>
    /\ calls[1].kind = "err"
    /\ calls[1].post = <<42, 50, 81, 86, 50, 13>>
    /\ calls[2].kind = "some"
    /\ calls[2].line = <<42, 50, 81, 86, 50, 13>>

\* The lines decode has removed, returned or rejected, in order.
Removed == SelectSeq(calls, LAMBDA call : call.kind # "none")

\* C27: the lines removed so far, one after another, followed by the
\* buffer, are the bytes fed so far; the k-th line removed is the k-th
\* frame of the stream, whatever the chunks it arrived in.
C27_BytesConserved ==
    /\ Flatten([k \in 1..Len(Removed) |-> Removed[k].line]) \o src = fed
    /\ \A k \in 1..Len(Removed) : Removed[k].line = FrameOf(fed, k)
    /\ \A i \in 1..Len(calls) :
           calls[i].kind = "none" =>
               calls[i].line = <<>> /\ calls[i].post = calls[i].pre

\* "*1QV" arrived and a call returned None; "1\r*2QV2\r" arrived and the
\* next call removed "*1QV1\r", leaving "*2QV2\r" in the buffer.
C27_Witness ==
    /\ Len(calls) = 2
    /\ calls[1].pre = <<42, 49, 81, 86>>
    /\ calls[1].kind = "none"
    /\ calls[2].line = <<42, 49, 81, 86, 49, 13>>
    /\ src = <<42, 50, 81, 86, 50, 13>>
    /\ fed = <<42, 49, 81, 86, 49, 13, 42, 50, 81, 86, 50, 13>>

\* ------------------------------------------------------------------------
\* Properties of the queries made over one session
\* ------------------------------------------------------------------------

\* The queries so far that took a frame from the session.
TookFrame(upto) == {j \in 1..upto : results[j].took # 0}

\* The replies the servo sent that no receive has returned yet.
NotTaken ==
    [k \in 1..(Len(replies) - Cardinality(TookFrame(Len(results)))) |->
        replies[Cardinality(TookFrame(Len(results))) + k].frame]

\* C28: the session hands out the frames in the order they arrived and
\* keeps every frame that no receive has returned: a query that receives a
\* frame receives the oldest one not yet returned, and that is the reply to
\* an earlier query exactly when an earlier query was sent and got no frame
\* (its receive timed out before the reply arrived). The stale reply is
\* parsed like any other: a query_position that receives the reply to an
\* earlier query_position returns that reply's value.
C28_StaleReplyReturned ==
    /\ Flatten(NotTaken) = driver.port.rd \o driver.line
    /\ \A i \in 1..Len(results) :
           results[i].took # 0 =>
               /\ results[i].took = Cardinality(TookFrame(i))
               /\ results[i].took <= Len(replies)
               /\ results[i].frame = replies[results[i].took].frame
               /\ replies[results[i].took].answers <= i
               /\ replies[results[i].took].answers < i <=>
                      \E j \in 1..(i - 1) :
                          results[j].sent /\ results[j].took = 0
               /\ (/\ results[i].name = "query_position"
                   /\ results[replies[results[i].took].answers].name
                          = "query_position") =>
                      results[i].ret =
                          QueryOk(replies[results[i].took].value, 10, "")

\* query_position timed out, its reply "*5QD132\r" came late, and the next
\* query_position returned 13.2 from it while its own reply "*5QD300\r"
\* stayed in the session.
C28_Witness ==
    /\ Len(results) = 2
    /\ results[1].name = "query_position"
    /\ results[1].ret.kind = "TimeoutError"
    /\ results[2].name = "query_position"
    /\ results[2].frame = <<42, 53, 81, 68, 49, 51, 50, 13>>
    /\ results[2].ret = QueryOk(132, 10, "")
    /\ Len(replies) = 2
    /\ replies[1].answers = 1
    /\ driver.port.rd = <<42, 53, 81, 68, 51, 48, 48, 13>>

\* The reply a query received was sent for a command with its opcode.
SameOpcode(i) ==
    /\ results[i].took # 0
    /\ results[replies[results[i].took].answers].name = results[i].name

\* C29: query_position(id) and query_filter_position_count(id) return the
\* value of the reply they receive whatever address it comes from: the
\* address of the reply is not compared with id.
C29_ReplyAddressIgnored ==
    \A i \in 1..Len(results) :
        (/\ SameOpcode(i)
         /\ results[i].name \in {"query_position",
                                 "query_filter_position_count"}) =>
            /\ results[i].ret.kind = "Ok"
            /\ results[i].name = "query_position" =>
                   /\ results[i].ret.num = replies[results[i].took].value
                   /\ results[i].ret.den = 10

\* query_position(5) received "*6QD132\r" and returned 13.2.
C29_Witness ==
    \E i \in 1..Len(results) :
        /\ results[i].name = "query_position"
        /\ results[i].id = 5
        /\ results[i].frame = <<42, 54, 81, 68, 49, 51, 50, 13>>
        /\ replies[results[i].took].address = 6
        /\ results[i].ret = QueryOk(132, 10, "")

\* C30: query_id and query_filter_position_count return the value of the
\* reply modulo 256, a number in 0..255, and no error: 300 is returned as
\* 44 and -1 as 255.
C30_ValueTruncatedToU8 ==
    \A i \in 1..Len(results) :
        (/\ SameOpcode(i)
         /\ results[i].name \in {"query_id", "query_filter_position_count"}) =>
            /\ results[i].ret.kind = "Ok"
            /\ results[i].ret.den = 1
            /\ results[i].ret.num \in 0..255
            /\ (replies[results[i].took].value - results[i].ret.num) % 256 = 0
            /\ replies[results[i].took].value = 300 => results[i].ret.num = 44
            /\ replies[results[i].took].value = -1 => results[i].ret.num = 255

\* query_id received "*QID300\r" and returned 44.
C30_Witness ==
    \E i \in 1..Len(results) :
        /\ results[i].name = "query_id"
        /\ results[i].frame = <<42, 81, 73, 68, 51, 48, 48, 13>>
        /\ results[i].ret = QueryOk(44, 1, "")

====
